---------------------------- MODULE Spec2Model ----------------------------
(***************************************************************************)
(* A model of the Aerospike database plugin: the connection producer      *)
(* (Init, Connection, Close, getHosts, getTLSConfig) and the credential   *)
(* operations built on it (CreateUser, SetCredentials, RevokeUser,        *)
(* RotateRootCredentials).                                                 *)
(*                                                                         *)
(* Each invocation is run by a thread.  A thread calls an operation,      *)
(* waits for the producer's mutex, runs the body of the operation in      *)
(* steps that are separated by the blocking calls of the client library   *)
(* (establishing a connection, the remote user-management call), and      *)
(* releases the mutex when it returns.  The client library and the         *)
(* database are the environment: establishing a connection and a remote    *)
(* call may succeed or fail, and a connection may drop at any time.        *)
(*                                                                         *)
(* Strings are TLA+ strings, except the host string, which is a sequence   *)
(* of one-character strings so that strings.Split and strconv.Atoi can     *)
(* be computed on it.                                                      *)
(***************************************************************************)
EXTENDS Integers, Sequences, FiniteSets, TLC

(***************************************************************************)
(* Bounds of the model.                                                    *)
(***************************************************************************)
\* handles the client library hands out before every further attempt fails
MaxHandles == 2
\* values the credentials producer generates before it reports an error
MaxGen == 2

\* Init calls the host process makes
MaxInit == 2

\* the threads of the host process that invoke operations on the plugin
Threads == {"t1", "t2"}

NoThread == "none"

\* the nil *aerospike.Client
NilClient == 0

\* the nil error
NoErr == "nil"

(***************************************************************************)
(* strings.Split(s, sep) for a one-character separator: the substrings    *)
(* between the separators, in order; one (empty) substring for the empty  *)
(* string.                                                                 *)
(***************************************************************************)
Split(s, sep) ==
    LET RECURSIVE scan(_, _, _)
        scan(i, cur, acc) ==
            IF i > Len(s) THEN Append(acc, cur)
            ELSE IF s[i] = sep THEN scan(i + 1, <<>>, Append(acc, cur))
            ELSE scan(i + 1, Append(cur, s[i]), acc)
    IN scan(1, <<>>, <<>>)

Digits == <<"0", "1", "2", "3", "4", "5", "6", "7", "8", "9">>

IsDigit(ch) == \E d \in 1..Len(Digits) : Digits[d] = ch

DigitVal(ch) == (CHOOSE d \in 1..Len(Digits) : Digits[d] = ch) - 1

(***************************************************************************)
(* strconv.Atoi: an optional sign followed by at least one decimal digit   *)
(* and nothing else.  The strings of the model are too short to overflow.  *)
(***************************************************************************)
Atoi(s) ==
    LET signed == Len(s) > 0 /\ s[1] \in {"+", "-"}
        body   == IF signed THEN Tail(s) ELSE s
        RECURSIVE val(_, _)
        val(i, acc) == IF i > Len(body) THEN acc
                       ELSE val(i + 1, 10 * acc + DigitVal(body[i]))
        ok     == Len(body) > 0 /\ \A i \in 1..Len(body) : IsDigit(body[i])
    IN IF ~ok THEN [ok |-> FALSE, val |-> 0]
       ELSE [ok |-> TRUE,
             val |-> IF signed /\ s[1] = "-" THEN 0 - val(1, 0) ELSE val(1, 0)]

\* the port of an entry that names none
DefaultPort == 3000

\* aerospike.NewHost(name, port)
NewHost(name, port) == [Name |-> name, TLSName |-> <<>>, Port |-> port]

\* a getHosts that returns, beside its error, the endpoints parsed so far
getHosts_Partial(host) ==
    LET entries == Split(host, ",")
        RECURSIVE loop(_, _)
        loop(i, acc) ==
            IF i > Len(entries) THEN [err |-> NoErr, hosts |-> acc]
            ELSE
              LET components == Split(entries[i], ":")
                  n    == Len(components)
                  port == IF n > 1 THEN Atoi(components[n])
                          ELSE [ok |-> TRUE, val |-> DefaultPort]
                  h    == NewHost(components[1], port.val)
              IN IF n > 3
                 THEN [err |-> "too many components for host #" \o ToString(i),
                       hosts |-> acc]
                 ELSE IF ~port.ok
                 THEN [err |-> "invalid port number for host #" \o ToString(i),
                       hosts |-> acc]
                 ELSE loop(i + 1,
                           Append(acc, IF n = 3
                                       THEN [h EXCEPT !.TLSName = components[2]]
                                       ELSE h))
    IN loop(1, <<>>)

\* a getHosts that drops the TLS name of an entry with three components
getHosts_NoTLSName(host) ==
    LET entries == Split(host, ",")
        RECURSIVE loop(_, _)
        loop(i, acc) ==
            IF i > Len(entries) THEN [err |-> NoErr, hosts |-> acc]
            ELSE
              LET components == Split(entries[i], ":")
                  n    == Len(components)
                  port == IF n > 1 THEN Atoi(components[n])
                          ELSE [ok |-> TRUE, val |-> DefaultPort]
              IN IF n > 3
                 THEN [err |-> "too many components for host #" \o ToString(i),
                       hosts |-> <<>>]
                 ELSE IF ~port.ok
                 THEN [err |-> "invalid port number for host #" \o ToString(i),
                       hosts |-> <<>>]
                 ELSE loop(i + 1, Append(acc, NewHost(components[1], port.val)))
    IN loop(1, <<>>)

(***************************************************************************)
(* getHosts: one endpoint per comma-separated entry, in order; the first   *)
(* entry with more than three components or with a port that Atoi          *)
(* rejects ends the parse with an error and no endpoints.                  *)
(***************************************************************************)
getHosts(host) ==
    LET entries == Split(host, ",")
        RECURSIVE loop(_, _)
        loop(i, acc) ==
            IF i > Len(entries) THEN [err |-> NoErr, hosts |-> acc]
            ELSE
              LET components == Split(entries[i], ":")
                  n    == Len(components)
                  port == IF n > 1 THEN Atoi(components[n])
                          ELSE [ok |-> TRUE, val |-> DefaultPort]
                  h    == NewHost(components[1], port.val)
              IN IF n > 3
                 THEN [err |-> "too many components for host #" \o ToString(i),
                       hosts |-> <<>>]
                 ELSE IF ~port.ok
                 THEN [err |-> "invalid port number for host #" \o ToString(i),
                       hosts |-> <<>>]
                 ELSE loop(i + 1,
                           Append(acc, IF n = 3
                                       THEN [h EXCEPT !.TLSName = components[2]]
                                       ELSE h))
    IN loop(1, <<>>)

(***************************************************************************)
(* TLS material.  The PEM parsers of the standard library are modelled by  *)
(* the sets of byte strings they accept.                                   *)
(***************************************************************************)
ValidCAs == {"ca_pem"}

ValidKeyPairs == {"cert_key_pem"}

\* the nil *tls.Config
NilTLS == [enabled |-> FALSE, RootCAs |-> "", Certificates |-> <<>>]

\* a getTLSConfig that goes on without a keypair it cannot load
getTLSConfig_KeyOptional(caData, certKeyData) ==
    IF caData = "" THEN [err |-> NoErr, cfg |-> NilTLS]
    ELSE IF caData \notin ValidCAs
    THEN [err |-> "failed to append CA to client policy", cfg |-> NilTLS]
    ELSE [err |-> NoErr,
          cfg |-> [enabled |-> TRUE, RootCAs |-> caData,
                   Certificates |-> IF certKeyData \in ValidKeyPairs
                                    THEN <<certKeyData>> ELSE <<>>]]

\* getTLSConfig: no configuration without CA bytes; else the CA pool and,
\* with certificate-and-key bytes, the keypair loaded from them
getTLSConfig(caData, certKeyData) ==
    IF caData = "" THEN [err |-> NoErr, cfg |-> NilTLS]
    ELSE IF caData \notin ValidCAs
    THEN [err |-> "failed to append CA to client policy", cfg |-> NilTLS]
    ELSE IF certKeyData # "" /\ certKeyData \notin ValidKeyPairs
    THEN [err |-> "unable to load tls_certificate_key_data", cfg |-> NilTLS]
    ELSE [err |-> NoErr,
          cfg |-> [enabled |-> TRUE, RootCAs |-> caData,
                   Certificates |-> IF certKeyData # "" THEN <<certKeyData>>
                                    ELSE <<>>]]


(***************************************************************************)
(* Configuration maps.  A configuration map is a function from some of     *)
(* the keys below to values; a key outside its domain is a missing key.    *)
(***************************************************************************)
ConfKeys == {"host", "username", "password", "tls_ca", "tls_certificate_key"}

\* the nil map
NilConf == <<>>

\* a value that mapstructure cannot convert to a string (a nested map)
UndecodableHost == <<"{}">>

UndecodableString == "{}"

HostA == <<"a", ":", "7">>

HostB == <<"b", ":", "t", ":", "8", ",", "c">>

HostTooMany == <<"a", ":", "b", ":", "c", ":", "d">>

ConfA == [host |-> HostA, username |-> "u1", password |-> "p1"]

ConfB ==
    [host |-> HostB, username |-> "u2", password |-> "p2",
     tls_ca |-> "ca_pem", tls_certificate_key |-> "cert_key_pem"]

\* conf without key k
Without(conf, k) == [x \in (DOMAIN conf) \ {k} |-> conf[x]]

\* conf with key k set to v
With(conf, k, v) ==
    [x \in (DOMAIN conf) \cup {k} |-> IF x = k THEN v ELSE conf[x]]

(***************************************************************************)
(* The configuration maps the model passes to Init: two complete ones,     *)
(* and for each way Init can fail a map that is complete but for that.     *)
(***************************************************************************)
ConfInputs ==
    {ConfA, ConfB,
     Without(ConfA, "host"), With(ConfA, "host", <<>>),
     Without(ConfA, "username"), With(ConfA, "username", ""),
     Without(ConfA, "password"), With(ConfA, "password", ""),
     With(ConfA, "host", HostTooMany),
     With(ConfA, "username", UndecodableString),
     With(ConfA, "tls_ca", "bad_ca"),
     With(With(ConfA, "tls_ca", "ca_pem"), "tls_certificate_key", "bad_key")}

(***************************************************************************)
(* Creation statements: a JSON document is modelled by what                *)
(* json.Unmarshal makes of it, a parse error or the roles array (empty     *)
(* when the document has no "roles" member).                               *)
(***************************************************************************)
MalformedJSON == [json |-> "malformed", roles |-> <<>>]

RolesJSON(roles) == [json |-> "object", roles |-> roles]

StatementInputs ==
    {<<>>, <<MalformedJSON>>, <<RolesJSON(<<>>)>>,
     <<RolesJSON(<<"read", "user-admin">>)>>}

\* the error of json.Unmarshal
ErrParse == "invalid character"

\* a json.Unmarshal that reports no parse error
Unmarshal_Lenient(stmt) == [err |-> NoErr, roles |-> stmt.roles]

\* json.Unmarshal of a creation statement into aerospikeCreationStatement
Unmarshal(stmt) ==
    IF stmt.json = "malformed"
    THEN [err |-> ErrParse, roles |-> <<>>]
    ELSE [err |-> NoErr, roles |-> stmt.roles]

\* the static accounts SetCredentials and RevokeUser are called with
StaticUsers == {"s1"}

StaticPasswords == {"sp1"}

(***************************************************************************)
(* Errors.                                                                 *)
(***************************************************************************)
ErrNotInitialized == "connection has not been initialized"

ErrEmptyCreationStatement == "empty creation statements"

ErrConnect == "connect failed"

ErrRemote == "remote error"

ErrRolesRequired == "roles array is required in creation statement"

ErrGenerateUsername == "generate username failed"

ErrGeneratePassword == "generate password failed"

ErrRotate == "username and password are required to rotate"

ErrNotConnected == "error verifying connection: not connected"

\* errwrap.Wrapf("error verifying connection: {{err}}", err)
Wrapf(err) == "error verifying connection: " \o err

(***************************************************************************)
(* The state of the plugin.                                                *)
(***************************************************************************)
VARIABLES
    Host, Username, Password,           \* typed configuration fields
    TLSCertificateKeyData, TLSCAData,
    Initialized, RawConfig,
    hosts,                              \* parsed endpoints
    clientPolicy,                       \* credentials and TLS of new connections
    client,                             \* the cached handle, or NilClient
    mutex,                              \* the thread holding the lock
    conns,                              \* every handle the client library made
    ngen,                               \* passwords generated so far
    pc, inv,                            \* per thread: position and invocation
    lastInit, everInitOk,               \* history of the Init calls that returned
    ninit                               \* Init calls started so far

vars ==
    <<Host, Username, Password, TLSCertificateKeyData, TLSCAData, Initialized,
      RawConfig, hosts, clientPolicy, client, mutex, conns, ngen, pc, inv,
      lastInit, everInitOk, ninit>>

histVars == <<lastInit, everInitOk, ninit>>

confVars ==
    <<Host, Username, Password, TLSCertificateKeyData, TLSCAData, Initialized,
      RawConfig, hosts, clientPolicy>>

\* the producer's configuration, as one value
Config ==
    [Host |-> Host, Username |-> Username, Password |-> Password,
     TLSCertificateKeyData |-> TLSCertificateKeyData, TLSCAData |-> TLSCAData,
     Initialized |-> Initialized, RawConfig |-> RawConfig, hosts |-> hosts,
     clientPolicy |-> clientPolicy]

\* aerospike.NewClientPolicy() with no user, password or TLS set
NewClientPolicy == [User |-> "", Password |-> "", TlsConfig |-> NilTLS]

Ops ==
    {"Init", "Close", "CreateUser", "SetCredentials", "RevokeUser",
     "RotateRootCredentials"}

\* a thread that is running no operation
IdleInv ==
    [op |-> "none", arg |-> "none", cli |-> NilClient, dials |-> 0,
     closes |-> 0, calls |-> <<>>, pending |-> "none", err |-> NoErr,
     val |-> "nil", pre |-> "none", had |-> NilClient]

\* the state after New(): a zero producer, no thread running
Init ==
    /\ Host = <<>>
    /\ Username = ""
    /\ Password = ""
    /\ TLSCertificateKeyData = ""
    /\ TLSCAData = ""
    /\ Initialized = FALSE
    /\ RawConfig = NilConf
    /\ hosts = <<>>
    /\ clientPolicy = NewClientPolicy
    /\ client = NilClient
    /\ mutex = NoThread
    /\ conns = <<>>
    /\ ngen = 0
    /\ pc = [t \in Threads |-> "idle"]
    /\ inv = [t \in Threads |-> IdleInv]
    /\ lastInit = "none"
    /\ everInitOk = FALSE
    /\ ninit = 0

(***************************************************************************)
(* mapstructure.WeakDecode(conf, c): every key of conf that names a field  *)
(* is converted and stored in the field; a field whose key is missing      *)
(* from conf keeps the value it had; a value that cannot be converted is   *)
(* an error and leaves its field alone, the other fields being decoded.    *)
(***************************************************************************)
Decodable(conf, k) ==
    /\ k \in DOMAIN conf
    /\ IF k = "host" THEN conf[k] # UndecodableHost
       ELSE conf[k] # UndecodableString

DecodeField(conf, k, old) == IF Decodable(conf, k) THEN conf[k] ELSE old

WeakDecode(conf) ==
    [err |-> IF \E k \in DOMAIN conf : ~Decodable(conf, k)
             THEN "expected type 'string', got unconvertible type"
             ELSE NoErr,
     Host |-> DecodeField(conf, "host", Host),
     Username |-> DecodeField(conf, "username", Username),
     Password |-> DecodeField(conf, "password", Password),
     TLSCAData |-> DecodeField(conf, "tls_ca", TLSCAData),
     TLSCertificateKeyData |->
         DecodeField(conf, "tls_certificate_key", TLSCertificateKeyData)]

\* the client policy Init builds: a new policy with user, password and TLS set
ClientPolicy(user, password, tls) ==
    [User |-> user, Password |-> password, TlsConfig |-> tls]

\* an Init that returns its map without the password
InitResult_Redacted(conf, err) ==
    IF err # NoErr THEN NilConf ELSE Without(conf, "password")

\* what Init returns: the map it was given, or no map beside an error
InitResult(conf, err) == IF err # NoErr THEN NilConf ELSE conf

(***************************************************************************)
(* The part of Init that precedes the verification of the connection: the  *)
(* error it ends with (NoErr when it reaches the verification) and the     *)
(* value each field has at that point.  A field is written as soon as its  *)
(* statement is reached, whether or not a later check fails.               *)
(***************************************************************************)
InitFields(conf) ==
    LET d      == WeakDecode(conf)
        parsed == getHosts(d.Host)
        tls    == getTLSConfig(d.TLSCAData, d.TLSCertificateKeyData)
        policy == ClientPolicy(d.Username, d.Password, tls.cfg)
        stage  == IF d.err # NoErr THEN 1
                  ELSE IF Len(d.Host) = 0 THEN 2
                  ELSE IF parsed.err # NoErr THEN 3
                  ELSE IF Len(d.Username) = 0 THEN 4
                  ELSE IF Len(d.Password) = 0 THEN 5
                  ELSE IF tls.err # NoErr THEN 6
                  ELSE 7
    IN [err |-> CASE stage = 1 -> d.err
                  [] stage = 2 -> "host cannot be empty"
                  [] stage = 3 -> parsed.err
                  [] stage = 4 -> "username cannot be empty"
                  [] stage = 5 -> "password cannot be empty"
                  [] stage = 6 -> tls.err
                  [] OTHER -> NoErr,
        Host |-> d.Host, Username |-> d.Username, Password |-> d.Password,
        TLSCAData |-> d.TLSCAData,
        TLSCertificateKeyData |-> d.TLSCertificateKeyData,
        RawConfig |-> conf,
        hosts |-> IF stage >= 3 THEN parsed.hosts ELSE hosts,
        clientPolicy |-> IF stage >= 6 THEN policy ELSE clientPolicy,
        Initialized |-> IF stage = 7 THEN TRUE ELSE Initialized]

(***************************************************************************)
(* Handles of the client library.                                          *)
(***************************************************************************)
\* client.IsConnected()
IsConnected(h) == conns[h].alive

\* a client.Close() that releases nothing
CloseHandle_Skipped(cs, h) == cs

\* client.Close()
CloseHandle(cs, h) == [cs EXCEPT ![h].closed = @ + 1, ![h].alive = FALSE]

\* the handle NewClientWithPolicyAndHost(c.clientPolicy, c.hosts...) returns
NewClient(policy, eps) ==
    [User |-> policy.User, Password |-> policy.Password,
     TlsConfig |-> policy.TlsConfig, hosts |-> eps, alive |-> TRUE,
     closed |-> 0]

\* a connection is lost: the handle no longer reports itself connected
ConnectionLost(h) ==
    /\ h \in 1..Len(conns)
    /\ conns[h].alive
    /\ conns' = [conns EXCEPT ![h].alive = FALSE]
    /\ UNCHANGED <<confVars, client, mutex, ngen, pc, inv, histVars>>

(***************************************************************************)
(* Threads: calling an operation, taking and releasing the mutex.          *)
(***************************************************************************)
Call(t, op) ==
    /\ pc[t] = "idle"
    /\ op = "Init" => ninit < MaxInit
    /\ ninit' = IF op = "Init" THEN ninit + 1 ELSE ninit
    /\ pc' = [pc EXCEPT ![t] = "lock"]
    /\ inv' = [inv EXCEPT ![t] = [IdleInv EXCEPT !.op = op]]
    /\ UNCHANGED <<confVars, client, mutex, conns, ngen, lastInit, everInitOk>>

\* a Lock that returns while another thread holds the mutex
MutexFree_Ignored == TRUE

\* sync.Mutex: Lock returns only when no thread holds the mutex
MutexFree == mutex = NoThread

\* c.Lock()
Lock(t) ==
    /\ pc[t] = "lock"
    /\ MutexFree
    /\ mutex' = t
    /\ pc' = [pc EXCEPT ![t] = "start"]
    /\ UNCHANGED <<confVars, client, conns, ngen, inv, histVars>>

\* a return that leaves the mutex held
Unlock_Skipped(t) ==
    /\ pc[t] = "ret"
    /\ mutex' = mutex
    /\ pc' = [pc EXCEPT ![t] = "idle"]
    /\ inv' = [inv EXCEPT ![t] = IdleInv]
    /\ lastInit' = IF inv[t].op # "Init" THEN lastInit
                   ELSE IF inv[t].err = NoErr THEN "ok" ELSE "fail"
    /\ everInitOk' = (everInitOk \/ (inv[t].op = "Init" /\ inv[t].err = NoErr))
    /\ UNCHANGED <<confVars, client, conns, ngen, ninit>>

\* the deferred c.Unlock(), which runs as the operation returns
Unlock(t) ==
    /\ pc[t] = "ret"
    /\ mutex' = NoThread
    /\ pc' = [pc EXCEPT ![t] = "idle"]
    /\ inv' = [inv EXCEPT ![t] = IdleInv]
    /\ lastInit' = IF inv[t].op # "Init" THEN lastInit
                   ELSE IF inv[t].err = NoErr THEN "ok" ELSE "fail"
    /\ everInitOk' = (everInitOk \/ (inv[t].op = "Init" /\ inv[t].err = NoErr))
    /\ UNCHANGED <<confVars, client, conns, ngen, ninit>>

\* the operation of thread t sets its results to (val, err) and returns
Return(t, i, val, err) ==
    /\ pc' = [pc EXCEPT ![t] = "ret"]
    /\ inv' = [inv EXCEPT ![t] =
                  [i EXCEPT !.val = val, !.err = err, !.pending = "none"]]

\* the (username, password) results of CreateUser and SetCredentials
Creds(u, pw) == [username |-> u, password |-> pw]

(***************************************************************************)
(* The credentials producer.                                               *)
(***************************************************************************)
GenerateUsername == "v-" \o ToString(ngen + 1)

GeneratePassword == "A1a-" \o ToString(ngen + 1)

(***************************************************************************)
(* What a credential operation does once getConnection has returned        *)
(* handle h, up to its remote call.                                        *)
(***************************************************************************)
\* the remote call of RotateRootCredentials: the current user, the new password
RotateCall(password, h) ==
    [kind |-> "ChangePassword", user |-> Username, password |-> password,
     roles |-> <<>>, handle |-> h]

\* a rotation that leaves the raw configuration as it was
RotatedConfig_Unchanged(password) == RawConfig

\* the raw configuration after a rotation to password
RotatedConfig(password) == With(RawConfig, "password", password)

\* a create-user call that grants only the first role of the statement
CreateCall_FirstRole(roles, h) ==
    [kind |-> "CreateUser", user |-> GenerateUsername,
     password |-> GeneratePassword, roles |-> <<roles[1]>>, handle |-> h]

\* the remote call of CreateUser: the generated pair and the statement's roles
CreateCall(roles, h) ==
    [kind |-> "CreateUser", user |-> GenerateUsername,
     password |-> GeneratePassword, roles |-> roles, handle |-> h]

\* a change of password to a generated password instead of the supplied one
SetCall_Generated(staticUser, h) ==
    [kind |-> "ChangePassword", user |-> staticUser.username,
     password |-> GeneratePassword, roles |-> <<>>, handle |-> h]

\* the remote call of SetCredentials: the supplied username and password
SetCall(staticUser, h) ==
    [kind |-> "ChangePassword", user |-> staticUser.username,
     password |-> staticUser.password, roles |-> <<>>, handle |-> h]

\* a drop of the administrative user instead of the user named
DropCall_Admin(username, h) ==
    [kind |-> "DropUser", user |-> Username, password |-> "",
     roles |-> <<>>, handle |-> h]

\* the remote call of RevokeUser: the user named
DropCall(username, h) ==
    [kind |-> "DropUser", user |-> username, password |-> "",
     roles |-> <<>>, handle |-> h]

\* the operation of thread t issues a remote call and waits for its result
Issue(t, i, call) ==
    /\ pc' = [pc EXCEPT ![t] = "rpc"]
    /\ inv' = [inv EXCEPT ![t] = [i EXCEPT !.pending = call]]

AfterConnection(t, i0, h) ==
    LET i == [i0 EXCEPT !.cli = h] IN
    \/ /\ i.op = "Init"
       /\ ngen' = ngen
       /\ pc' = [pc EXCEPT ![t] = "verify"]
       /\ inv' = [inv EXCEPT ![t] = i]
    \/ /\ i.op = "CreateUser"
       /\ \/ /\ Return(t, i, Creds("", ""), ErrGenerateUsername)
             /\ ngen' = ngen
          \/ /\ Return(t, i, Creds("", ""), ErrGeneratePassword)
             /\ ngen' = ngen
          \/ /\ ngen < MaxGen
             /\ ngen' = ngen + 1
             /\ LET cs == Unmarshal(i.arg[1]) IN
                IF cs.err # NoErr
                THEN Return(t, i, Creds("", ""), cs.err)
                ELSE IF Len(cs.roles) = 0
                THEN Return(t, i, Creds("", ""), ErrRolesRequired)
                ELSE Issue(t, i, CreateCall(cs.roles, h))
    \/ /\ i.op = "SetCredentials"
       /\ ngen' = ngen
       /\ Issue(t, i, SetCall(i.arg, h))
    \/ /\ i.op = "RevokeUser"
       /\ ngen' = ngen
       /\ Issue(t, i, DropCall(i.arg, h))
    \/ /\ i.op = "RotateRootCredentials"
       /\ \/ /\ Return(t, i, NilConf, ErrGeneratePassword)
             /\ ngen' = ngen
          \/ /\ ngen < MaxGen
             /\ ngen' = ngen + 1
             /\ Issue(t, i, RotateCall(GeneratePassword, h))

\* an error of Connection as the operation returns it: Init wraps it
ConnErr(op, err) == IF op = "Init" THEN Wrapf(err) ELSE err

\* the value an operation returns beside an error
NoValue(op) ==
    IF op \in {"CreateUser", "SetCredentials"} THEN Creds("", "")
    ELSE IF op = "RevokeUser" THEN "nil"
    ELSE NilConf

\* a Connection that returns the cached handle without asking whether it is
\* connected
Connection_Unchecked(t, i) ==
    IF ~Initialized
    THEN /\ Return(t, i, NoValue(i.op), ConnErr(i.op, ErrNotInitialized))
         /\ UNCHANGED <<conns, ngen>>
    ELSE IF client # NilClient
    THEN /\ AfterConnection(t, i, client)
         /\ UNCHANGED conns
    ELSE /\ conns' = conns
         /\ pc' = [pc EXCEPT ![t] = "dial"]
         /\ inv' = [inv EXCEPT ![t] = i]
         /\ ngen' = ngen

\* a Connection that closes a cached handle that has lost its connection
\* and hands it out all the same
Connection_ReturnsClosed(t, i) ==
    IF ~Initialized
    THEN /\ Return(t, i, NoValue(i.op), ConnErr(i.op, ErrNotInitialized))
         /\ UNCHANGED <<conns, ngen>>
    ELSE IF client # NilClient /\ IsConnected(client)
    THEN /\ AfterConnection(t, i, client)
         /\ UNCHANGED conns
    ELSE IF client # NilClient
    THEN /\ conns' = CloseHandle(conns, client)
         /\ AfterConnection(t, [i EXCEPT !.closes = @ + 1], client)
    ELSE /\ conns' = conns
         /\ pc' = [pc EXCEPT ![t] = "dial"]
         /\ inv' = [inv EXCEPT ![t] = i]
         /\ ngen' = ngen

(***************************************************************************)
(* Connection, up to the point where it has to establish a connection:     *)
(* the not-initialized error, the cached handle if it reports itself       *)
(* connected, or else the cached handle is closed and a new connection is  *)
(* to be established (thread t then waits in "dial").                      *)
(***************************************************************************)
Connection(t, i) ==
    IF ~Initialized
    THEN /\ Return(t, i, NoValue(i.op), ConnErr(i.op, ErrNotInitialized))
         /\ UNCHANGED <<conns, ngen>>
    ELSE IF client # NilClient /\ IsConnected(client)
    THEN /\ AfterConnection(t, i, client)
         /\ UNCHANGED conns
    ELSE /\ conns' = IF client # NilClient THEN CloseHandle(conns, client)
                     ELSE conns
         /\ pc' = [pc EXCEPT ![t] = "dial"]
         /\ inv' = [inv EXCEPT ![t] =
                       [i EXCEPT !.closes = IF client # NilClient THEN @ + 1
                                            ELSE @]]
         /\ ngen' = ngen

(***************************************************************************)
(* The operations.  Each action below is one step of the operation that    *)
(* thread t runs while it holds the mutex.                                 *)
(***************************************************************************)
\* Init, up to the verification: store and decode conf, validate, parse
Initialize(t, conf, verify) ==
    LET f == InitFields(conf)
        i == [inv[t] EXCEPT !.arg = [conf |-> conf, verify |-> verify],
                            !.pre = Config, !.had = client]
    IN /\ pc[t] = "start"
       /\ inv[t].op = "Init"
       /\ Host' = f.Host
       /\ Username' = f.Username
       /\ Password' = f.Password
       /\ TLSCAData' = f.TLSCAData
       /\ TLSCertificateKeyData' = f.TLSCertificateKeyData
       /\ RawConfig' = f.RawConfig
       /\ hosts' = f.hosts
       /\ clientPolicy' = f.clientPolicy
       /\ Initialized' = f.Initialized
       /\ IF f.err # NoErr THEN Return(t, i, InitResult(conf, f.err), f.err)
          ELSE IF ~verify THEN Return(t, i, InitResult(conf, NoErr), NoErr)
          ELSE /\ pc' = [pc EXCEPT ![t] = "connect"]
               /\ inv' = [inv EXCEPT ![t] = i]
       /\ UNCHANGED <<client, mutex, conns, ngen, histVars>>

\* Init with verifyConnection: the call of c.Connection
InitConnection(t) ==
    /\ pc[t] = "connect"
    /\ Connection(t, inv[t])
    /\ UNCHANGED <<confVars, client, mutex, histVars>>

\* Init with verifyConnection: the check of c.client.IsConnected()
InitVerify(t) ==
    /\ pc[t] = "verify"
    /\ IF IsConnected(client)
       THEN Return(t, inv[t], InitResult(inv[t].arg.conf, NoErr), NoErr)
       ELSE Return(t, inv[t],
                   InitResult(inv[t].arg.conf, ErrNotConnected),
                   ErrNotConnected)
    /\ UNCHANGED <<confVars, client, mutex, conns, ngen, histVars>>

\* NewClientWithPolicyAndHost succeeds: the new handle is cached
DialOk(t) ==
    /\ pc[t] = "dial"
    /\ Len(conns) < MaxHandles
    /\ conns' = Append(conns, NewClient(clientPolicy, hosts))
    /\ client' = Len(conns) + 1
    /\ AfterConnection(t, [inv[t] EXCEPT !.dials = @ + 1], Len(conns) + 1)
    /\ UNCHANGED <<confVars, mutex, histVars>>

\* a failed connection attempt that leaves the handle it replaced cached
DialFail_KeepsHandle(t) ==
    /\ pc[t] = "dial"
    /\ client' = client
    /\ Return(t, [inv[t] EXCEPT !.dials = @ + 1], NoValue(inv[t].op),
              ConnErr(inv[t].op, ErrConnect))
    /\ UNCHANGED <<confVars, mutex, conns, ngen, histVars>>

\* NewClientWithPolicyAndHost fails: no handle is cached
DialFail(t) ==
    /\ pc[t] = "dial"
    /\ client' = NilClient
    /\ Return(t, [inv[t] EXCEPT !.dials = @ + 1], NoValue(inv[t].op),
              ConnErr(inv[t].op, ErrConnect))
    /\ UNCHANGED <<confVars, mutex, conns, ngen, histVars>>

\* a Close that closes the cached handle and keeps it cached
Close_KeepsHandle(t) ==
    /\ pc[t] = "start"
    /\ inv[t].op = "Close"
    /\ conns' = IF client # NilClient THEN CloseHandle(conns, client) ELSE conns
    /\ client' = client
    /\ Return(t, [inv[t] EXCEPT !.pre = Config, !.had = client,
                                !.closes = IF client # NilClient THEN 1 ELSE 0],
              "nil", NoErr)
    /\ UNCHANGED <<confVars, mutex, ngen, histVars>>

\* a Close after which the producer has to be initialized again
Close_Uninitializes(t) ==
    /\ pc[t] = "start"
    /\ inv[t].op = "Close"
    /\ conns' = IF client # NilClient THEN CloseHandle(conns, client) ELSE conns
    /\ client' = NilClient
    /\ Initialized' = FALSE
    /\ Return(t, [inv[t] EXCEPT !.pre = Config, !.had = client,
                                !.closes = IF client # NilClient THEN 1 ELSE 0],
              "nil", NoErr)
    /\ UNCHANGED <<Host, Username, Password, TLSCertificateKeyData, TLSCAData,
                   RawConfig, hosts, clientPolicy, mutex, ngen, histVars>>

\* Close: close the cached handle, if any, and cache none
Close(t) ==
    /\ pc[t] = "start"
    /\ inv[t].op = "Close"
    /\ conns' = IF client # NilClient THEN CloseHandle(conns, client) ELSE conns
    /\ client' = NilClient
    /\ Return(t, [inv[t] EXCEPT !.pre = Config, !.had = client,
                                !.closes = IF client # NilClient THEN 1 ELSE 0],
              "nil", NoErr)
    /\ UNCHANGED <<confVars, mutex, ngen, histVars>>

CreateUser(t, statements) ==
    LET i == [inv[t] EXCEPT !.arg = statements, !.pre = Config,
                            !.had = client]
    IN /\ pc[t] = "start"
       /\ inv[t].op = "CreateUser"
       /\ IF Len(statements) = 0
          THEN /\ Return(t, i, Creds("", ""), ErrEmptyCreationStatement)
               /\ UNCHANGED <<conns, ngen>>
          ELSE Connection(t, i)
       /\ UNCHANGED <<confVars, client, mutex, histVars>>

SetCredentials(t, username, password) ==
    LET i == [inv[t] EXCEPT !.arg = Creds(username, password),
                            !.pre = Config, !.had = client]
    IN /\ pc[t] = "start"
       /\ inv[t].op = "SetCredentials"
       /\ Connection(t, i)
       /\ UNCHANGED <<confVars, client, mutex, histVars>>

RevokeUser(t, username) ==
    LET i == [inv[t] EXCEPT !.arg = username, !.pre = Config,
                            !.had = client]
    IN /\ pc[t] = "start"
       /\ inv[t].op = "RevokeUser"
       /\ Connection(t, i)
       /\ UNCHANGED <<confVars, client, mutex, histVars>>

\* a rotation that asks for the connection without looking at the
\* configured username and password
RotateRootCredentials_Unguarded(t) ==
    LET i == [inv[t] EXCEPT !.pre = Config, !.had = client]
    IN /\ pc[t] = "start"
       /\ inv[t].op = "RotateRootCredentials"
       /\ Connection(t, i)
       /\ UNCHANGED <<confVars, client, mutex, histVars>>

\* a rotation that generates the new password before it looks at the
\* configured username and password
RotateRootCredentials_GeneratesFirst(t) ==
    LET i == [inv[t] EXCEPT !.pre = Config, !.had = client]
    IN /\ pc[t] = "start"
       /\ inv[t].op = "RotateRootCredentials"
       /\ IF Len(Username) = 0 \/ Len(Password) = 0
          THEN /\ Return(t, i, NilConf, ErrRotate)
               /\ ngen' = IF ngen < MaxGen THEN ngen + 1 ELSE ngen
               /\ UNCHANGED conns
          ELSE Connection(t, i)
       /\ UNCHANGED <<confVars, client, mutex, histVars>>

RotateRootCredentials(t) ==
    LET i == [inv[t] EXCEPT !.pre = Config, !.had = client]
    IN /\ pc[t] = "start"
       /\ inv[t].op = "RotateRootCredentials"
       /\ IF Len(Username) = 0 \/ Len(Password) = 0
          THEN /\ Return(t, i, NilConf, ErrRotate)
               /\ UNCHANGED <<conns, ngen>>
          ELSE Connection(t, i)
       /\ UNCHANGED <<confVars, client, mutex, histVars>>

\* a RenewUser that waits for the mutex to be free
RenewUser_Locked(t, username) ==
    /\ pc[t] = "idle"
    /\ MutexFree
    /\ pc' = [pc EXCEPT ![t] = "renewed"]
    /\ inv' = [inv EXCEPT ![t] =
                  [IdleInv EXCEPT !.op = "RenewUser", !.arg = username,
                                  !.pre = Config, !.had = client]]
    /\ UNCHANGED <<confVars, client, mutex, conns, ngen, histVars>>

\* RenewUser: a no-op that returns nil; it neither locks nor connects
RenewUser(t, username) ==
    /\ pc[t] = "idle"
    /\ pc' = [pc EXCEPT ![t] = "renewed"]
    /\ inv' = [inv EXCEPT ![t] =
                  [IdleInv EXCEPT !.op = "RenewUser", !.arg = username,
                                  !.pre = Config, !.had = client]]
    /\ UNCHANGED <<confVars, client, mutex, conns, ngen, histVars>>

\* the caller of RenewUser has its result
Renewed(t) ==
    /\ pc[t] = "renewed"
    /\ pc' = [pc EXCEPT ![t] = "idle"]
    /\ inv' = [inv EXCEPT ![t] = IdleInv]
    /\ UNCHANGED <<confVars, client, mutex, conns, ngen, histVars>>

(***************************************************************************)
(* The remote call returns.  It can succeed only on a handle that is       *)
(* connected; it can always fail.                                          *)
(***************************************************************************)
Done(i, ok) == [i EXCEPT !.calls = Append(@, [call |-> i.pending, ok |-> ok])]

\* a successful remote call after which every operation, not only the
\* rotation, stores the password of the call in the raw configuration
RemoteCallOk_StoresAll(t) ==
    LET i == Done(inv[t], TRUE)
        call == inv[t].pending
    IN /\ pc[t] = "rpc"
       /\ IsConnected(call.handle)
       /\ RawConfig' = RotatedConfig(call.password)
       /\ Return(t, i,
                 IF i.op = "RotateRootCredentials" THEN RawConfig'
                 ELSE IF i.op = "RevokeUser" THEN "nil"
                 ELSE Creds(call.user, call.password),
                 NoErr)
       /\ UNCHANGED <<Host, Username, Password, TLSCertificateKeyData,
                      TLSCAData, Initialized, hosts, clientPolicy, client,
                      mutex, conns, ngen, histVars>>

\* the remote call succeeds: the operation returns its value
RemoteCallOk(t) ==
    LET i == Done(inv[t], TRUE)
        call == inv[t].pending
    IN /\ pc[t] = "rpc"
       /\ IsConnected(call.handle)
       /\ IF i.op = "RotateRootCredentials"
          THEN /\ RawConfig' = RotatedConfig(call.password)
               /\ Return(t, i, RawConfig', NoErr)
          ELSE /\ RawConfig' = RawConfig
               /\ Return(t, i,
                         IF i.op = "RevokeUser" THEN "nil"
                         ELSE Creds(call.user, call.password),
                         NoErr)
       /\ UNCHANGED <<Host, Username, Password, TLSCertificateKeyData,
                      TLSCAData, Initialized, hosts, clientPolicy, client,
                      mutex, conns, ngen, histVars>>

\* a rotation that stores the new password although the remote call failed
RemoteCallFail_Stored(t) ==
    /\ pc[t] = "rpc"
    /\ RawConfig' = IF inv[t].op = "RotateRootCredentials"
                    THEN RotatedConfig(inv[t].pending.password)
                    ELSE RawConfig
    /\ Return(t, Done(inv[t], FALSE), NoValue(inv[t].op), ErrRemote)
    /\ UNCHANGED <<Host, Username, Password, TLSCertificateKeyData,
                   TLSCAData, Initialized, hosts, clientPolicy, client,
                   mutex, conns, ngen, histVars>>

\* a failed remote call after which the operation returns the error beside
\* the credentials it holds in its named results
RemoteCallFail_NamedResults(t) ==
    /\ pc[t] = "rpc"
    /\ Return(t, Done(inv[t], FALSE),
              IF inv[t].op \in {"CreateUser", "SetCredentials"}
              THEN Creds(inv[t].pending.user, inv[t].pending.password)
              ELSE NoValue(inv[t].op),
              ErrRemote)
    /\ UNCHANGED <<confVars, client, mutex, conns, ngen, histVars>>

\* a remote call that is issued a second time when it fails
RemoteCallFail_Retried(t) ==
    /\ pc[t] = "rpc"
    /\ IF Len(inv[t].calls) = 0
       THEN /\ pc' = pc
            /\ inv' = [inv EXCEPT ![t] = Done(inv[t], FALSE)]
       ELSE Return(t, Done(inv[t], FALSE), NoValue(inv[t].op), ErrRemote)
    /\ UNCHANGED <<confVars, client, mutex, conns, ngen, histVars>>

\* the remote call fails: the operation returns its error and no value
RemoteCallFail(t) ==
    /\ pc[t] = "rpc"
    /\ Return(t, Done(inv[t], FALSE), NoValue(inv[t].op), ErrRemote)
    /\ UNCHANGED <<confVars, client, mutex, conns, ngen, histVars>>

(***************************************************************************)
(* Specifications.  The three of them run the same operations and differ   *)
(* in the threads that call them and in the inputs they are called with.   *)
(***************************************************************************)
Main == "t1"

\* the steps every operation of thread t shares
Common(t) ==
    \/ Lock(t)
    \/ Unlock(t)
    \/ DialOk(t)
    \/ DialFail(t)
    \/ RemoteCallOk(t)
    \/ RemoteCallFail(t)

\* the steps of Init after its first
Verification(t) ==
    \/ InitConnection(t)
    \/ InitVerify(t)

(***************************************************************************)
(* SpecInit: one thread configures the producer with every configuration   *)
(* map of ConfInputs, closes it, and revokes users.                        *)
(***************************************************************************)
NextInit ==
    \/ \E op \in {"Init", "Close", "RevokeUser"} : Call(Main, op)
    \/ Common(Main)
    \/ Verification(Main)
    \/ \E conf \in ConfInputs, v \in BOOLEAN : Initialize(Main, conf, v)
    \/ Close(Main)
    \/ \E u \in StaticUsers : RevokeUser(Main, u)
    \/ \E h \in 1..MaxHandles : ConnectionLost(h)

SpecInit == Init /\ [][NextInit]_vars

(***************************************************************************)
(* SpecOps: one thread runs every operation on a producer configured with  *)
(* a complete configuration map, or with the map the producer holds.       *)
(***************************************************************************)
NextOps ==
    \/ \E op \in Ops : Call(Main, op)
    \/ Common(Main)
    \/ Verification(Main)
    \/ \E conf \in {ConfA, ConfB} \cup {RawConfig}, v \in BOOLEAN :
          Initialize(Main, conf, v)
    \/ Close(Main)
    \/ \E st \in StatementInputs : CreateUser(Main, st)
    \/ \E u \in StaticUsers, pw \in StaticPasswords : SetCredentials(Main, u, pw)
    \/ \E u \in StaticUsers : RevokeUser(Main, u)
    \/ RotateRootCredentials(Main)
    \/ \E h \in 1..MaxHandles : ConnectionLost(h)

SpecOps == Init /\ [][NextOps]_vars

(***************************************************************************)
(* Spec: every thread runs every operation.                                *)
(***************************************************************************)
Next ==
    \/ \E t \in Threads, op \in Ops : Call(t, op)
    \/ \E t \in Threads : Common(t)
    \/ \E t \in Threads : Verification(t)
    \/ \E t \in Threads, v \in BOOLEAN : Initialize(t, ConfA, v)
    \/ \E t \in Threads : Close(t)
    \/ \E t \in Threads :
          CreateUser(t, <<RolesJSON(<<"read", "user-admin">>)>>)
    \/ \E t \in Threads, u \in StaticUsers, pw \in StaticPasswords :
          SetCredentials(t, u, pw)
    \/ \E t \in Threads, u \in StaticUsers : RevokeUser(t, u)
    \/ \E t \in Threads : RotateRootCredentials(t)
    \/ \E t \in Threads, u \in StaticUsers : RenewUser(t, u)
    \/ \E t \in Threads : Renewed(t)
    \/ \E h \in 1..MaxHandles : ConnectionLost(h)

Spec == Init /\ [][Next]_vars

(***************************************************************************)
(* SpecRotate: one thread configures the producer with a complete map and  *)
(* with maps whose username or password is empty, and rotates the          *)
(* administrative password.                                                *)
(***************************************************************************)
RotateConfInputs ==
    {ConfA, With(ConfA, "username", ""), With(ConfA, "password", "")}

NextRotate ==
    \/ \E op \in {"Init", "RotateRootCredentials"} : Call(Main, op)
    \/ Common(Main)
    \/ Verification(Main)
    \/ \E conf \in RotateConfInputs, v \in BOOLEAN : Initialize(Main, conf, v)
    \/ RotateRootCredentials(Main)
    \/ \E h \in 1..MaxHandles : ConnectionLost(h)

SpecRotate == Init /\ [][NextRotate]_vars

\* secretValues: the Password field mapped to the placeholder
secretValues == [p \in {Password} |-> "[password]"]

(***************************************************************************)
(* The error-sanitizing middleware that New wraps around the plugin: when  *)
(* an operation has returned an error, and so has released the mutex, the  *)
(* middleware calls secretValues, which takes no lock, and replaces the    *)
(* keys of the mapping in the error message.                               *)
(***************************************************************************)
\* the operation of thread t returns an error to the middleware
ReturnError(t) ==
    /\ pc[t] = "ret"
    /\ inv[t].err # NoErr
    /\ mutex' = NoThread
    /\ pc' = [pc EXCEPT ![t] = "redact"]
    /\ lastInit' = IF inv[t].op # "Init" THEN lastInit ELSE "fail"
    /\ UNCHANGED <<confVars, client, conns, ngen, inv, everInitOk, ninit>>

\* the passwords a read of c.Password by thread t can see: the field, or,
\* unordered with the write of a running Init, the value before that write
ReadablePasswords(t) ==
    {Password} \cup
    {inv[u].pre.Password : u \in {v \in Threads \ {t} :
                                     /\ inv[v].op = "Init"
                                     /\ pc[v] \in {"connect", "dial",
                                                    "verify", "ret"}}}

\* the middleware of thread t calls secretValues
SecretValuesCalled(t) ==
    /\ pc[t] = "redact"
    /\ \E pw \in ReadablePasswords(t) :
          inv' = [inv EXCEPT ![t].val = [p \in {pw} |-> "[password]"]]
    /\ pc' = [pc EXCEPT ![t] = "redacted"]
    /\ UNCHANGED <<confVars, client, mutex, conns, ngen, histVars>>

\* the caller of thread t has its sanitized error
Sanitized(t) ==
    /\ pc[t] = "redacted"
    /\ pc' = [pc EXCEPT ![t] = "idle"]
    /\ inv' = [inv EXCEPT ![t] = IdleInv]
    /\ UNCHANGED <<confVars, client, mutex, conns, ngen, histVars>>

(***************************************************************************)
(* SpecSanitize: two threads configure the producer and revoke users       *)
(* through the middleware.                                                 *)
(***************************************************************************)
NextSanitize ==
    \/ \E t \in Threads, op \in {"Init", "RevokeUser"} : Call(t, op)
    \/ \E t \in Threads : Lock(t)
    \/ \E t \in Threads : inv[t].err = NoErr /\ Unlock(t)
    \/ \E t \in Threads : ReturnError(t)
    \/ \E t \in Threads : SecretValuesCalled(t)
    \/ \E t \in Threads : Sanitized(t)
    \/ \E t \in Threads : DialOk(t)
    \/ \E t \in Threads : DialFail(t)
    \/ \E t \in Threads : RemoteCallOk(t)
    \/ \E t \in Threads : RemoteCallFail(t)
    \/ \E t \in Threads : Verification(t)
    \/ \E t \in Threads, conf \in {ConfA, ConfB}, v \in BOOLEAN :
          Initialize(t, conf, v)
    \/ \E t \in Threads, u \in StaticUsers : RevokeUser(t, u)
    \/ \E h \in 1..MaxHandles : ConnectionLost(h)

SpecSanitize == Init /\ [][NextSanitize]_vars

(***************************************************************************)
(* SpecHosts: one Init on a new producer, with every host string of up to  *)
(* MaxHostLen characters of HostAlphabet, with and without verification.   *)
(***************************************************************************)
\* the longest host string
MaxHostLen == 5

\* a letter, a digit, a sign and the two separators
HostAlphabet == {"a", "7", "-", ":", ","}

HostInputs == UNION {[1..n -> HostAlphabet] : n \in 0..MaxHostLen}

\* a new producer on which thread Main has called Init and taken the mutex
InitCalled ==
    /\ Host = <<>>
    /\ Username = ""
    /\ Password = ""
    /\ TLSCertificateKeyData = ""
    /\ TLSCAData = ""
    /\ Initialized = FALSE
    /\ RawConfig = NilConf
    /\ hosts = <<>>
    /\ clientPolicy = NewClientPolicy
    /\ client = NilClient
    /\ mutex = Main
    /\ conns = <<>>
    /\ ngen = 0
    /\ pc = [t \in Threads |-> IF t = Main THEN "start" ELSE "idle"]
    /\ inv = [t \in Threads |->
                 IF t = Main THEN [IdleInv EXCEPT !.op = "Init"] ELSE IdleInv]
    /\ lastInit = "none"
    /\ everInitOk = FALSE
    /\ ninit = 1

NextHosts ==
    \/ /\ pc[Main] = "start"
       /\ \E host \in HostInputs, v \in BOOLEAN :
             Initialize(Main, With(ConfA, "host", host), v)
    \/ Verification(Main)
    \/ DialOk(Main)
    \/ DialFail(Main)
    \/ Unlock(Main)
    \/ \E h \in 1..MaxHandles : ConnectionLost(h)

SpecHosts == InitCalled /\ [][NextHosts]_vars

(***************************************************************************)
(* Properties.                                                             *)
(***************************************************************************)
\* thread t holds the mutex: it is between Lock and Unlock
InCriticalSection(t) ==
    pc[t] \in {"start", "connect", "verify", "dial", "rpc", "ret"}

\* thread t waits for the client library: a connection attempt or a remote call
InRemoteCall(t) == pc[t] \in {"dial", "rpc"}

\* thread t is at the return of operation op, its results set
Returns(t, op) == pc[t] = "ret" /\ inv[t].op = op

\* conf[k], or d when conf has no key k
Get(conf, k, d) == IF k \in DOMAIN conf THEN conf[k] ELSE d

(***************************************************************************)
(* C1: of the threads that have invoked CreateUser, SetCredentials,        *)
(* RevokeUser, RotateRootCredentials, Init or Close, at most one is        *)
(* between its Lock and its Unlock, and it is the holder of the mutex; so  *)
(* no two threads are in a connection attempt or a remote call at once.    *)
(***************************************************************************)
C1_MutualExclusion ==
    /\ \A t \in Threads : InCriticalSection(t) => mutex = t
    /\ \A t, u \in Threads :
          InCriticalSection(t) /\ InCriticalSection(u) => t = u
    /\ \A t, u \in Threads : InRemoteCall(t) /\ InRemoteCall(u) => t = u

\* one thread is in its remote call while another waits for the mutex
C1_Witness ==
    \E t, u \in Threads :
        /\ pc[t] = "rpc"
        /\ pc[u] = "lock"
        /\ inv[u].op \in Ops

(***************************************************************************)
(* C2: when RotateRootCredentials returns without error, the Password      *)
(* field of the producer (the password Init copies into the client policy  *)
(* and secretValues reads) equals the password of the remote               *)
(* ChangePassword call and differs from the password before the call.      *)
(***************************************************************************)
C2_RotationUpdatesPassword ==
    \A t \in Threads :
        Returns(t, "RotateRootCredentials") /\ inv[t].err = NoErr =>
            /\ Password = inv[t].calls[1].call.password
            /\ Password # inv[t].pre.Password
            /\ clientPolicy.Password = inv[t].calls[1].call.password

(***************************************************************************)
(* C3: when RotateRootCredentials returns without error it has issued      *)
(* exactly one remote call, a ChangePassword for the configured username   *)
(* with a non-empty password that the credentials producer generated in    *)
(* this call and that differs from the passwords held before; it returns   *)
(* the raw configuration map, which is the map held before the call with   *)
(* "password" set to the password of the remote call.                      *)
(***************************************************************************)
C3_RotationResult ==
    \A t \in Threads :
        Returns(t, "RotateRootCredentials") /\ inv[t].err = NoErr =>
            LET call == inv[t].calls[1].call IN
            /\ Len(inv[t].calls) = 1
            /\ inv[t].calls[1].ok
            /\ call.kind = "ChangePassword"
            /\ call.user = inv[t].pre.Username
            /\ call.user = Username
            /\ call.password # ""
            /\ call.password # inv[t].pre.Password
            /\ call.password # Get(inv[t].pre.RawConfig, "password", "")
            /\ call.password = "A1a-" \o ToString(ngen)
            /\ inv[t].val = RawConfig
            /\ inv[t].val = With(inv[t].pre.RawConfig, "password", call.password)
            /\ inv[t].val["password"] = call.password

\* a rotation has succeeded on a producer configured with TLS material
C3_Witness ==
    \E t \in Threads :
        /\ Returns(t, "RotateRootCredentials")
        /\ inv[t].err = NoErr
        /\ "tls_ca" \in DOMAIN inv[t].val
        /\ inv[t].val["password"] = "A1a-2"

(***************************************************************************)
(* C4: when the remote ChangePassword call of RotateRootCredentials fails, *)
(* the operation returns the remote error and no configuration map, and    *)
(* the raw configuration map, the username and the password are what they  *)
(* were before the call; the raw configuration holds the password of the   *)
(* remote call exactly when that call succeeded.                           *)
(***************************************************************************)
C4_RotationFailureLeavesConfig ==
    \A t \in Threads :
        Returns(t, "RotateRootCredentials") /\ inv[t].calls # <<>> =>
            LET done == inv[t].calls[1] IN
            /\ ~done.ok =>
                  /\ inv[t].err = ErrRemote
                  /\ inv[t].val = NilConf
                  /\ RawConfig = inv[t].pre.RawConfig
                  /\ Username = inv[t].pre.Username
                  /\ Password = inv[t].pre.Password
            /\ done.ok <=>
                  Get(RawConfig, "password", "") = done.call.password

\* a rotation has failed in its remote call
C4_Witness ==
    \E t \in Threads :
        /\ Returns(t, "RotateRootCredentials")
        /\ inv[t].calls # <<>>
        /\ ~inv[t].calls[1].ok
        /\ inv[t].err = ErrRemote

(***************************************************************************)
(* C5: when Init returns an error the producer is not initialized, and     *)
(* while the last Init that returned has failed, an operation that asks    *)
(* for the connection returns the not-initialized error.                   *)
(***************************************************************************)
C5_FailedInitUninitialized ==
    \A t \in Threads :
        /\ Returns(t, "Init") /\ inv[t].err # NoErr => ~Initialized
        /\ Returns(t, "RevokeUser") /\ lastInit = "fail" =>
              inv[t].err = ErrNotInitialized

(***************************************************************************)
(* C6: when Init returns from a call whose map has no host, or an empty    *)
(* one, the error is "host cannot be empty"; likewise for the username     *)
(* and the password of a map whose host is well formed; in each case Init  *)
(* returns no map and has made no connection attempt, whatever the verify  *)
(* flag.                                                                   *)
(***************************************************************************)
C6_EmptyFieldRejected ==
    \A t \in Threads :
        Returns(t, "Init") =>
            LET conf  == inv[t].arg.conf
                hostE == Get(conf, "host", <<>>) = <<>>
                userE == Get(conf, "username", "") = ""
                passE == Get(conf, "password", "") = ""
                hostOk == ~hostE /\ getHosts(conf["host"]).err = NoErr
            IN /\ hostE => inv[t].err = "host cannot be empty"
               /\ hostOk /\ userE => inv[t].err = "username cannot be empty"
               /\ hostOk /\ ~userE /\ passE =>
                     inv[t].err = "password cannot be empty"
               /\ hostE \/ userE \/ passE =>
                     /\ inv[t].val = NilConf
                     /\ inv[t].dials = 0
                     /\ inv[t].cli = NilClient

(***************************************************************************)
(* C7: when Init returns without error it returns the map it was given and *)
(* the producer is initialized; with verify = false it has made no         *)
(* connection attempt, closed no handle and left the cached handle alone.  *)
(***************************************************************************)
C7_InitReturnsConf ==
    \A t \in Threads :
        Returns(t, "Init") /\ inv[t].err = NoErr =>
            /\ inv[t].val = inv[t].arg.conf
            /\ Initialized
            /\ ~inv[t].arg.verify =>
                  /\ inv[t].dials = 0
                  /\ inv[t].closes = 0
                  /\ inv[t].cli = NilClient
                  /\ client = inv[t].had

\* a first Init without verification has succeeded: no handle exists
C7_Witness ==
    \E t \in Threads :
        /\ Returns(t, "Init")
        /\ inv[t].err = NoErr
        /\ ~inv[t].arg.verify
        /\ inv[t].val = ConfB
        /\ Initialized
        /\ client = NilClient
        /\ conns = <<>>

\* the step in which Init with verify = true returns without error
VerifiedBy(t) ==
    /\ pc[t] = "verify"
    /\ pc'[t] = "ret"
    /\ inv'[t].err = NoErr

(***************************************************************************)
(* C8 as claimed: when Init(conf, verify = true) returns without error,    *)
(* whatever the state it was called in, the cached handle is connected     *)
(* and was created with the username, password, endpoints and TLS          *)
(* material of conf.                                                       *)
(***************************************************************************)
C8_VerifiedHandleIsOfConf ==
    [][\A t \in Threads :
          VerifiedBy(t) =>
              LET conf == inv[t].arg.conf IN
              /\ client # NilClient
              /\ IsConnected(client)
              /\ conns[client].User = Get(conf, "username", "")
              /\ conns[client].Password = Get(conf, "password", "")
              /\ conns[client].hosts = getHosts(Get(conf, "host", <<>>)).hosts
              /\ conns[client].TlsConfig =
                    getTLSConfig(Get(conf, "tls_ca", ""),
                                 Get(conf, "tls_certificate_key", "")).cfg]_vars

(***************************************************************************)
(* C9: an operation that asks for the connection returns the               *)
(* not-initialized error, having made no connection attempt, closed no     *)
(* handle and issued no remote call, if and only if no Init call has       *)
(* returned without error.                                                 *)
(***************************************************************************)
C9_NotInitializedIffNeverInitialized ==
    \A t \in Threads :
        Returns(t, "RevokeUser") =>
            ((/\ inv[t].err = ErrNotInitialized
              /\ inv[t].dials = 0
              /\ inv[t].closes = 0
              /\ inv[t].calls = <<>>)
             <=> ~everInitOk)

\* thread t takes the step in which its operation asks for the connection
AsksConnection(t) ==
    /\ pc[t] \in {"start", "connect"}
    /\ pc'[t] # pc[t]
    /\ inv'[t].op \notin {"Close"}

(***************************************************************************)
(* C10: Connection hands out the cached handle, creating none, only when   *)
(* that handle reports itself connected, and then it does so; otherwise    *)
(* it closes the cached handle once and goes on to create a handle from    *)
(* the stored endpoints and client policy (user, password, TLS), which is  *)
(* cached as it is handed out.  No handle is closed twice, and a           *)
(* connected handle is the last one created and the cached one: while a    *)
(* handle stays connected no other handle is created.                      *)
(***************************************************************************)
C10_Connection ==
    /\ [][\A t \in Threads :
            /\ AsksConnection(t) /\ inv'[t].cli # NilClient =>
                  /\ inv'[t].cli = client
                  /\ Initialized
                  /\ IsConnected(client)
                  /\ conns' = conns
                  /\ client' = client
                  /\ inv'[t].dials = 0
            /\ AsksConnection(t) /\ pc'[t] = "dial" =>
                  /\ Initialized
                  /\ client = NilClient \/ ~IsConnected(client)
                  /\ client' = client
                  /\ client = NilClient =>
                        conns' = conns /\ inv'[t].closes = 0
                  /\ client # NilClient =>
                        /\ conns' = [conns EXCEPT ![client].closed = 1,
                                                  ![client].alive = FALSE]
                        /\ conns[client].closed = 0
                        /\ inv'[t].closes = 1
            /\ pc[t] = "dial" /\ pc'[t] # "dial" /\ client' # NilClient =>
                  /\ conns' = Append(conns,
                                     [User |-> clientPolicy.User,
                                      Password |-> clientPolicy.Password,
                                      TlsConfig |-> clientPolicy.TlsConfig,
                                      hosts |-> hosts, alive |-> TRUE,
                                      closed |-> 0])
                  /\ client' = Len(conns) + 1
                  /\ inv'[t].cli = client'
                  /\ inv'[t].dials = 1]_vars
    /\ [](\A h \in 1..Len(conns) :
            /\ conns[h].closed <= 1
            /\ conns[h].alive => h = Len(conns) /\ h = client)

\* a cached handle that had lost its connection has been closed and replaced
C10_Witness ==
    \E t \in Threads :
        /\ pc[t] = "rpc"
        /\ inv[t].closes = 1
        /\ inv[t].dials = 1
        /\ inv[t].cli = 2
        /\ client = 2
        /\ conns[1].closed = 1
        /\ conns[2].alive

\* the handles that have been created and not closed
Unclosed == {h \in 1..Len(conns) : conns[h].closed = 0}

(***************************************************************************)
(* C11: in every reachable state at most one handle has been created and   *)
(* not yet closed, and such a handle is the cached one.                    *)
(***************************************************************************)
C11_AtMostOneOpenHandle ==
    /\ Cardinality(Unclosed) <= 1
    /\ \A h \in Unclosed : h = client

\* a second handle is open after the first one was closed
C11_Witness ==
    /\ Len(conns) = 2
    /\ conns[1].closed = 1
    /\ Unclosed = {2}
    /\ client = 2

\* thread t takes the step that is the body of Close
Closes(t) ==
    /\ pc[t] = "start"
    /\ inv[t].op = "Close"
    /\ pc'[t] = "ret"

(***************************************************************************)
(* C12: Close returns no error; it closes the cached handle, if there is   *)
(* one, once, and leaves no handle cached; it changes nothing else.  With  *)
(* no handle cached, which is the state every Close leaves, it changes     *)
(* nothing at all: a second Close leaves the state of the first.           *)
(***************************************************************************)
C12_Close ==
    /\ [][\A t \in Threads :
            Closes(t) =>
                /\ inv'[t].err = NoErr
                /\ client' = NilClient
                /\ UNCHANGED <<confVars, ngen>>
                /\ client # NilClient =>
                      /\ conns' = [conns EXCEPT ![client].closed = @ + 1,
                                                ![client].alive = FALSE]
                      /\ conns[client].closed = 0
                /\ client = NilClient =>
                      UNCHANGED <<conns, client>>]_vars
    /\ [](\A t \in Threads :
            Returns(t, "Close") =>
                /\ inv[t].err = NoErr
                /\ client = NilClient
                /\ \A h \in 1..Len(conns) : ~conns[h].alive /\ conns[h].closed = 1)

\* a Close with no handle cached has returned after an earlier Close closed
\* the only handle
C12_Witness ==
    \E t \in Threads :
        /\ Returns(t, "Close")
        /\ inv[t].had = NilClient
        /\ inv[t].closes = 0
        /\ Len(conns) = 1
        /\ conns[1].closed = 1
        /\ client = NilClient

\* thread t is at the return of a CreateUser that was called on a producer
\* with the initialized flag set
CreateUserReturns(t) ==
    /\ Returns(t, "CreateUser")
    /\ inv[t].pre.Initialized

\* the creation statements hold a first statement that is not valid JSON
IsMalformed(statements) ==
    Len(statements) > 0 /\ statements[1].json = "malformed"

\* the creation statements hold a first statement with no role in it
HasNoRoles(statements) ==
    /\ Len(statements) > 0
    /\ statements[1].json = "object"
    /\ Len(statements[1].roles) = 0

(***************************************************************************)
(* C13 as claimed: on an initialized producer CreateUser fails with the    *)
(* empty-creation-statement error when it is given no statement, with a    *)
(* parse error when the statement is not valid JSON, and with "roles       *)
(* array is required in creation statement" when the roles array is empty  *)
(* or absent; in the three cases no remote call is issued and the          *)
(* credentials returned are empty.                                         *)
(***************************************************************************)
C13_BadStatementError ==
    \A t \in Threads :
        CreateUserReturns(t) =>
            LET st == inv[t].arg IN
            /\ Len(st) = 0 => inv[t].err = ErrEmptyCreationStatement
            /\ IsMalformed(st) => inv[t].err = ErrParse
            /\ HasNoRoles(st) => inv[t].err = ErrRolesRequired
            /\ Len(st) = 0 \/ IsMalformed(st) \/ HasNoRoles(st) =>
                  /\ inv[t].calls = <<>>
                  /\ inv[t].val = Creds("", "")

(***************************************************************************)
(* C13 amended: on an initialized producer CreateUser with no creation     *)
(* statement fails with the empty-creation-statement error without asking  *)
(* for the connection.  With a statement that is not valid JSON, or whose  *)
(* roles array is empty or absent, it first obtains the connection and     *)
(* generates the username and the password: it fails with the error of     *)
(* the connection attempt or of the generator if one of these fails, and   *)
(* otherwise with the parse error, respectively with "roles array is       *)
(* required in creation statement".  In every case it fails, issues no     *)
(* remote call and returns empty credentials.                              *)
(***************************************************************************)
C13_BadStatementRejected ==
    \A t \in Threads :
        CreateUserReturns(t) =>
            LET st  == inv[t].arg
                err == inv[t].err
                early ==
                    \/ inv[t].cli = NilClient /\ err = ErrConnect
                    \/ /\ inv[t].cli # NilClient
                       /\ err \in {ErrGenerateUsername, ErrGeneratePassword}
            IN /\ Len(st) = 0 =>
                     /\ err = ErrEmptyCreationStatement
                     /\ inv[t].cli = NilClient
                     /\ inv[t].dials = 0
                     /\ inv[t].closes = 0
               /\ IsMalformed(st) =>
                     /\ err = ErrParse \/ early
                     /\ err = ErrParse => inv[t].cli # NilClient
               /\ HasNoRoles(st) =>
                     /\ err = ErrRolesRequired \/ early
                     /\ err = ErrRolesRequired => inv[t].cli # NilClient
               /\ Len(st) = 0 \/ IsMalformed(st) \/ HasNoRoles(st) =>
                     /\ err # NoErr
                     /\ inv[t].calls = <<>>
                     /\ inv[t].val = Creds("", "")

\* a statement that is not valid JSON has been rejected with the parse error,
\* on a connection this call established
C13_Witness ==
    \E t \in Threads :
        /\ CreateUserReturns(t)
        /\ IsMalformed(inv[t].arg)
        /\ inv[t].err = ErrParse
        /\ inv[t].dials = 1
        /\ inv[t].cli = client
        /\ inv[t].calls = <<>>

\* the creation statements hold a first statement with a non-empty roles array
HasRoles(statements) ==
    /\ Len(statements) > 0
    /\ statements[1].json = "object"
    /\ Len(statements[1].roles) > 0

\* the one remote call a CreateUser with statement st, that obtained handle
\* inv[t].cli and generated the pair (user, password), has to issue
IsCreateCallOf(t, c) ==
    /\ c.kind = "CreateUser"
    /\ c.roles = inv[t].arg[1].roles
    /\ c.handle = inv[t].cli
    /\ c.user # ""
    /\ c.password # ""

(***************************************************************************)
(* C14: on an initialized producer, a CreateUser whose statement holds a   *)
(* non-empty roles array and that has obtained the connection and          *)
(* generated its credentials issues exactly one remote call, a             *)
(* create-user call with exactly the roles of the statement, and succeeds  *)
(* exactly when that call does; when it succeeds it returns the username   *)
(* and password of that call.  The configuration of the producer is the    *)
(* one held before the call and holds neither value.                       *)
(***************************************************************************)
C14_CreateUser ==
    \A t \in Threads :
        CreateUserReturns(t) /\ HasRoles(inv[t].arg) =>
            LET i == inv[t] IN
            /\ (/\ i.cli # NilClient
                /\ i.err \notin {ErrGenerateUsername, ErrGeneratePassword}) =>
                  /\ Len(i.calls) = 1
                  /\ IsCreateCallOf(t, i.calls[1].call)
                  /\ i.calls[1].ok <=> i.err = NoErr
            /\ i.err = NoErr =>
                  /\ Len(i.calls) = 1
                  /\ i.calls[1].ok
                  /\ IsCreateCallOf(t, i.calls[1].call)
                  /\ i.val = Creds(i.calls[1].call.user, i.calls[1].call.password)
                  /\ Username # i.val.username
                  /\ {Password, clientPolicy.Password,
                      Get(RawConfig, "password", "")} \cap {i.val.password} = {}
            /\ Config = i.pre

\* a user with two roles has been created
C14_Witness ==
    \E t \in Threads :
        /\ CreateUserReturns(t)
        /\ inv[t].err = NoErr
        /\ inv[t].val = Creds("v-1", "A1a-1")
        /\ Len(inv[t].calls) = 1
        /\ inv[t].calls[1].call.roles = <<"read", "user-admin">>
        /\ inv[t].calls[1].call.user = "v-1"
        /\ inv[t].calls[1].call.password = "A1a-1"

(***************************************************************************)
(* C15: when the remote create-user call fails, CreateUser returns the     *)
(* error of that call and an empty username and password.                  *)
(***************************************************************************)
C15_CreateUserRemoteFailure ==
    \A t \in Threads :
        /\ Returns(t, "CreateUser")
        /\ inv[t].calls # <<>>
        /\ ~inv[t].calls[1].ok
        => /\ inv[t].err = ErrRemote
           /\ inv[t].val = Creds("", "")
           /\ Len(inv[t].calls) = 1

\* the remote call that carried a generated pair has failed
C15_Witness ==
    \E t \in Threads :
        /\ Returns(t, "CreateUser")
        /\ Len(inv[t].calls) = 1
        /\ ~inv[t].calls[1].ok
        /\ inv[t].calls[1].call.password = "A1a-1"
        /\ inv[t].err = ErrRemote
        /\ inv[t].val = Creds("", "")

(***************************************************************************)
(* C16: on an initialized producer, a SetCredentials that has obtained     *)
(* the connection issues exactly one remote call, ChangePassword with the  *)
(* username and password it was given; when the call succeeds it returns   *)
(* that pair, when the call fails it returns the error of the call and an  *)
(* empty pair.  Without a connection it issues no call and returns the     *)
(* error of the connection attempt.  It generates nothing.                 *)
(***************************************************************************)
C16_SetCredentials ==
    /\ [](\A t \in Threads :
            Returns(t, "SetCredentials") /\ inv[t].pre.Initialized =>
                LET i == inv[t] IN
                /\ i.cli # NilClient =>
                      /\ Len(i.calls) = 1
                      /\ i.calls[1].call =
                            [kind |-> "ChangePassword",
                             user |-> i.arg.username,
                             password |-> i.arg.password,
                             roles |-> <<>>, handle |-> i.cli]
                      /\ i.calls[1].ok => i.err = NoErr /\ i.val = i.arg
                      /\ ~i.calls[1].ok =>
                            i.err = ErrRemote /\ i.val = Creds("", "")
                /\ i.cli = NilClient =>
                      /\ i.calls = <<>>
                      /\ i.err = ErrConnect
                      /\ i.val = Creds("", ""))
    /\ [][\A t \in Threads :
            InCriticalSection(t) /\ inv[t].op = "SetCredentials" =>
                ngen' = ngen]_vars

\* the password of a static account has been set
C16_Witness ==
    \E t \in Threads :
        /\ Returns(t, "SetCredentials")
        /\ inv[t].err = NoErr
        /\ inv[t].val = Creds("s1", "sp1")
        /\ Len(inv[t].calls) = 1
        /\ inv[t].calls[1].call.user = "s1"
        /\ inv[t].calls[1].call.password = "sp1"
        /\ inv[t].calls[1].ok

(***************************************************************************)
(* C17: on an initialized producer, a RevokeUser that has obtained the     *)
(* connection issues exactly one remote call, DropUser for the username    *)
(* it was given, and returns the result of that call: no error when it     *)
(* succeeds, the error of the call when it fails.  Without a connection    *)
(* it issues no call and returns the error of the connection attempt.      *)
(***************************************************************************)
C17_RevokeUser ==
    \A t \in Threads :
        Returns(t, "RevokeUser") /\ inv[t].pre.Initialized =>
            LET i == inv[t] IN
            /\ i.cli # NilClient =>
                  /\ Len(i.calls) = 1
                  /\ i.calls[1].call =
                        [kind |-> "DropUser", user |-> i.arg, password |-> "",
                         roles |-> <<>>, handle |-> i.cli]
                  /\ i.calls[1].ok => i.err = NoErr
                  /\ ~i.calls[1].ok => i.err = ErrRemote
            /\ i.cli = NilClient =>
                  /\ i.calls = <<>>
                  /\ i.err = ErrConnect

\* a user has been dropped
C17_Witness ==
    \E t \in Threads :
        /\ Returns(t, "RevokeUser")
        /\ inv[t].pre.Initialized
        /\ inv[t].err = NoErr
        /\ Len(inv[t].calls) = 1
        /\ inv[t].calls[1].call.kind = "DropUser"
        /\ inv[t].calls[1].call.user = "s1"
        /\ inv[t].calls[1].ok

\* the operations that manage database users other than the administrator
UserOps == {"CreateUser", "SetCredentials", "RevokeUser"}

(***************************************************************************)
(* C18: no step of CreateUser, SetCredentials or RevokeUser changes the    *)
(* configuration of the producer, so whether the operation succeeds or     *)
(* fails the initialized flag, host string, parsed endpoints, username,    *)
(* password, raw configuration map, TLS data and client policy are at its  *)
(* return what they were at its start.                                     *)
(***************************************************************************)
C18_UserOpsKeepConfig ==
    /\ [][\A t \in Threads :
            InCriticalSection(t) /\ inv[t].op \in UserOps =>
                UNCHANGED confVars]_vars
    /\ [](\A t \in Threads :
            pc[t] = "ret" /\ inv[t].op \in UserOps => Config = inv[t].pre)

\* a CreateUser has succeeded on a handle it had to establish: the cached
\* handle is not the one held before, the configuration is
C18_Witness ==
    \E t \in Threads :
        /\ Returns(t, "CreateUser")
        /\ inv[t].err = NoErr
        /\ inv[t].dials = 1
        /\ client # inv[t].had
        /\ Config = inv[t].pre
        /\ Initialized

(***************************************************************************)
(* C19: a thread that runs no operation can call RenewUser in every state  *)
(* of the producer, whoever holds the mutex; the call returns no error,    *)
(* and its step changes neither the configuration, nor the cached handle,  *)
(* nor the mutex, nor any handle, and issues no remote call.               *)
(***************************************************************************)
C19_RenewUserNoOp ==
    /\ [](\A t \in Threads :
            /\ pc[t] = "idle" => \A u \in StaticUsers : ENABLED RenewUser(t, u)
            /\ pc[t] = "renewed" =>
                  /\ inv[t].err = NoErr
                  /\ inv[t].calls = <<>>
                  /\ inv[t].dials = 0
                  /\ inv[t].closes = 0
                  /\ inv[t].cli = NilClient
                  /\ mutex # t)
    /\ [][\A t \in Threads :
            pc[t] = "idle" /\ pc'[t] = "renewed" =>
                /\ UNCHANGED <<confVars, client, mutex, conns, ngen, histVars>>
                /\ \A u \in Threads \ {t} : pc'[u] = pc[u] /\ inv'[u] = inv[u]]_vars

\* RenewUser has returned while another thread holds the mutex and waits for
\* its remote call
C19_Witness ==
    \E t \in Threads, u \in Threads :
        /\ pc[t] = "renewed"
        /\ inv[t].op = "RenewUser"
        /\ inv[t].err = NoErr
        /\ mutex = u
        /\ pc[u] = "rpc"

\* the entries of a host string, each split into its components
Entries(host) ==
    LET es == Split(host, ",") IN [k \in 1..Len(es) |-> Split(es[k], ":")]

\* every entry has one to three components
OneToThree(host) ==
    \A k \in 1..Len(Entries(host)) : Len(Entries(host)[k]) \in 1..3

\* s is a decimal integer: digits, after an optional sign
IsInteger(s) ==
    LET body == IF Len(s) > 0 /\ s[1] \in {"+", "-"} THEN Tail(s) ELSE s
    IN Len(body) > 0 /\ \A k \in 1..Len(body) : IsDigit(body[k])

\* the port components of all entries are decimal integers
IntegerPorts(host) ==
    \A k \in 1..Len(Entries(host)) :
        LET c == Entries(host)[k] IN Len(c) > 1 => IsInteger(c[Len(c)])

\* the value of a decimal integer
IntegerValue(s) ==
    LET neg  == s[1] = "-"
        body == IF s[1] \in {"+", "-"} THEN Tail(s) ELSE s
        RECURSIVE val(_)
        val(k) == IF k = 0 THEN 0 ELSE 10 * val(k - 1) + DigitVal(body[k])
    IN IF neg THEN 0 - val(Len(body)) ELSE val(Len(body))

\* the endpoint an entry with components c stands for
EndpointOf(c) ==
    CASE Len(c) = 1 -> [Name |-> c[1], TLSName |-> <<>>, Port |-> 3000]
      [] Len(c) = 2 -> [Name |-> c[1], TLSName |-> <<>>,
                        Port |-> IntegerValue(c[2])]
      [] Len(c) = 3 -> [Name |-> c[1], TLSName |-> c[2],
                        Port |-> IntegerValue(c[3])]

\* the host string has been parsed into exactly the endpoints of its entries
ParsedInOrder(host) ==
    LET r == getHosts(host) IN
    /\ r.err = NoErr
    /\ Len(r.hosts) = Len(Entries(host))
    /\ \A k \in 1..Len(r.hosts) : r.hosts[k] = EndpointOf(Entries(host)[k])

(***************************************************************************)
(* C20 as claimed: every host string whose entries have one to three       *)
(* components is parsed into one endpoint per entry, in order, with the    *)
(* name, TLS name and port of the entry (port 3000 for one component),     *)
(* and a handle created afterwards is created with these endpoints.        *)
(***************************************************************************)
C20_EndpointsOfEntries ==
    OneToThree(Host) =>
        /\ getHosts(Host).err = NoErr
        /\ ParsedInOrder(Host)
        /\ \A h \in 1..Len(conns) : conns[h].hosts = getHosts(Host).hosts

(***************************************************************************)
(* C20 amended: every host string whose entries have one to three          *)
(* components, the last component of each entry with two or three being a  *)
(* decimal integer with an optional sign, is parsed into one endpoint per  *)
(* entry, in order: (name, no TLS name, 3000) for one component, (name,    *)
(* no TLS name, port) for two, (name, TLS name, port) for three, the port  *)
(* being the value of the integer.  A string with a port component that    *)
(* is not such an integer is not parsed: getHosts returns an error and no  *)
(* endpoints.  Init stores the endpoints of the host string it parsed,     *)
(* and a handle is created with the stored endpoints.                      *)
(***************************************************************************)
C20_EndpointsOfIntegerPorts ==
    /\ OneToThree(Host) /\ IntegerPorts(Host) => ParsedInOrder(Host)
    /\ OneToThree(Host) /\ ~IntegerPorts(Host) =>
          /\ getHosts(Host).err # NoErr
          /\ getHosts(Host).hosts = <<>>
    /\ \A t \in Threads :
          Returns(t, "Init") /\ inv[t].err = NoErr =>
              hosts = getHosts(Host).hosts
    /\ \A h \in 1..Len(conns) :
          /\ conns[h].hosts = hosts
          /\ ParsedInOrder(Host)
          /\ conns[h].hosts = getHosts(Host).hosts

\* a host string of two entries, with and without a port, has been parsed
\* and a handle has been created with its endpoints
C20_Witness ==
    /\ Host = <<"a", ":", "7", ",", "7">>
    /\ Len(conns) = 1
    /\ conns[1].hosts =
          <<[Name |-> <<"a">>, TLSName |-> <<>>, Port |-> 7],
            [Name |-> <<"7">>, TLSName |-> <<>>, Port |-> 3000]>>

\* entry k of the host string has more than three components
TooMany(host, k) == Len(Entries(host)[k]) > 3

\* entry k of the host string has a port component that is not an integer
BadPort(host, k) ==
    LET c == Entries(host)[k] IN
    Len(c) \in 2..3 /\ ~IsInteger(c[Len(c)])

\* the position of the first entry with more than three components
FirstTooMany(host) ==
    CHOOSE k \in 1..Len(Entries(host)) :
        TooMany(host, k) /\ \A j \in 1..(k - 1) : ~TooMany(host, j)

\* thread t is at the return of an Init whose map supplied the host string
\* the producer holds
InitReturnsOn(t) ==
    /\ Returns(t, "Init")
    /\ Get(inv[t].arg.conf, "host", <<>>) = Host

(***************************************************************************)
(* C21 as claimed: when an entry of the host string has more than three    *)
(* components, Init fails with "too many components for host #i", i the    *)
(* position of the first such entry, and the producer holds no endpoints.  *)
(***************************************************************************)
C21_TooManyComponents ==
    \A t \in Threads :
        InitReturnsOn(t) /\ (\E k \in 1..Len(Entries(Host)) : TooMany(Host, k))
        => /\ inv[t].err =
                 "too many components for host #" \o ToString(FirstTooMany(Host))
           /\ hosts = <<>>

(***************************************************************************)
(* C21 amended: when an entry of the host string has more than three       *)
(* components Init fails, returns no map, attempts no connection and the   *)
(* producer holds no endpoints.  The error names the first entry that      *)
(* cannot be parsed: it is "too many components for host #i", i the        *)
(* position of the first entry with more than three components, when no    *)
(* earlier entry has a port that is not an integer, and otherwise the      *)
(* invalid-port error with the position of the first such entry.           *)
(***************************************************************************)
C21_FirstUnparsableEntry ==
    \A t \in Threads :
        InitReturnsOn(t) /\ (\E k \in 1..Len(Entries(Host)) : TooMany(Host, k))
        => LET i == FirstTooMany(Host)
               early == {j \in 1..(i - 1) : BadPort(Host, j)}
           IN /\ early = {} =>
                    inv[t].err = "too many components for host #" \o ToString(i)
              /\ early # {} =>
                    \E j \in early :
                        /\ \A e \in early : j <= e
                        /\ inv[t].err =
                              "invalid port number for host #" \o ToString(j)
              /\ hosts = <<>>
              /\ inv[t].val = NilConf
              /\ inv[t].dials = 0
              /\ conns = <<>>
              /\ ~Initialized

\* Init has rejected a host string whose second entry has four components
C21_Witness ==
    \E t \in Threads :
        /\ InitReturnsOn(t)
        /\ Host = <<"a", ",", ":", ":", ":">>
        /\ inv[t].err = "too many components for host #2"
        /\ hosts = <<>>

\* s is a non-negative decimal integer: digits only
IsNatural(s) == Len(s) > 0 /\ \A k \in 1..Len(s) : IsDigit(s[k])

(***************************************************************************)
(* C22: a host string with an entry of two or three components whose last  *)
(* component is not a non-negative integer (not numeric, empty, or         *)
(* negative) is not parsed, and the error of a string whose first          *)
(* unparsable entry is such an entry is the invalid-port error with the    *)
(* position of the entry; every endpoint of a parsed string has a port     *)
(* that is at least 0.                                                     *)
(***************************************************************************)
C22_PortNonNegative ==
    LET r == getHosts(Host)
        n == Len(Entries(Host))
        bad(k) == LET c == Entries(Host)[k] IN
                  Len(c) \in 2..3 /\ ~IsNatural(c[Len(c)])
    IN /\ \A k \in 1..n :
             bad(k) /\ (\A j \in 1..(k - 1) : ~bad(j) /\ ~TooMany(Host, j)) =>
                 r.err = "invalid port number for host #" \o ToString(k)
       /\ r.err = NoErr => \A k \in 1..Len(r.hosts) : r.hosts[k].Port >= 0
       /\ \A h \in 1..Len(conns) :
             \A k \in 1..Len(conns[h].hosts) : conns[h].hosts[k].Port >= 0

\* a TLS configuration that holds a client keypair holds a trust anchor
AnchoredKeypair(cfg) ==
    cfg.Certificates # <<>> => cfg.enabled /\ cfg.RootCAs # ""

(***************************************************************************)
(* C23: when Init returns without error, the TLS configuration of the      *)
(* client policy is absent exactly when the map supplied no CA bytes,      *)
(* whether or not it supplied certificate-and-key bytes; when present it   *)
(* holds a trust anchor, and it holds a client keypair exactly when the    *)
(* map supplied both.  In every state, a TLS configuration of the policy   *)
(* or of a handle that holds a client keypair holds a trust anchor.        *)
(***************************************************************************)
C23_TLSConfigOfConf ==
    /\ \A t \in Threads :
          Returns(t, "Init") /\ inv[t].err = NoErr =>
              LET ca  == Get(inv[t].arg.conf, "tls_ca", "")
                  key == Get(inv[t].arg.conf, "tls_certificate_key", "")
                  cfg == clientPolicy.TlsConfig
              IN /\ ~cfg.enabled <=> ca = ""
                 /\ cfg.enabled => cfg.RootCAs # ""
                 /\ cfg.Certificates # <<>> <=> (ca # "" /\ key # "")
    /\ AnchoredKeypair(clientPolicy.TlsConfig)
    /\ \A h \in 1..Len(conns) : AnchoredKeypair(conns[h].TlsConfig)

\* the map supplies a host string that parses, a username and a password
CompleteButTLS(conf) ==
    /\ Get(conf, "host", <<>>) # <<>>
    /\ getHosts(Get(conf, "host", <<>>)).err = NoErr
    /\ Get(conf, "username", "") \notin {"", UndecodableString}
    /\ Get(conf, "password", "") \notin {"", UndecodableString}

(***************************************************************************)
(* C24: Init with a map, complete otherwise, whose CA bytes cannot be      *)
(* parsed fails with "failed to append CA to client policy"; with a valid  *)
(* CA and certificate-and-key bytes that cannot be loaded it fails with    *)
(* "unable to load tls_certificate_key_data"; in both cases it returns no  *)
(* map, attempts no connection and closes no handle, whatever the verify   *)
(* flag.                                                                   *)
(***************************************************************************)
C24_InvalidTLSMaterial ==
    \A t \in Threads :
        Returns(t, "Init") /\ CompleteButTLS(inv[t].arg.conf) =>
            LET ca  == Get(inv[t].arg.conf, "tls_ca", "")
                key == Get(inv[t].arg.conf, "tls_certificate_key", "")
                badCA  == ca # "" /\ ca \notin ValidCAs
                badKey == ca \in ValidCAs /\ key # "" /\ key \notin ValidKeyPairs
            IN /\ badCA => inv[t].err = "failed to append CA to client policy"
               /\ badKey =>
                     inv[t].err = "unable to load tls_certificate_key_data"
               /\ badCA \/ badKey =>
                     /\ inv[t].val = NilConf
                     /\ inv[t].dials = 0
                     /\ inv[t].closes = 0
                     /\ client = inv[t].had

\* an Init with verification has rejected a keypair that cannot be loaded
C24_Witness ==
    \E t \in Threads :
        /\ Returns(t, "Init")
        /\ inv[t].arg.verify
        /\ Get(inv[t].arg.conf, "tls_ca", "") = "ca_pem"
        /\ Get(inv[t].arg.conf, "tls_certificate_key", "") = "bad_key"
        /\ inv[t].err = "unable to load tls_certificate_key_data"
        /\ inv[t].val = NilConf

(***************************************************************************)
(* C25: secretValues is a mapping with a single key, the administrative    *)
(* password in effect, and the value "[password]": as a successful Init    *)
(* returns the key is the password of its map, and as a successful         *)
(* RotateRootCredentials returns the key is the password that its remote   *)
(* ChangePassword call has set.                                            *)
(***************************************************************************)
C25_SecretValuesRedactCurrentPassword ==
    \A t \in Threads :
        /\ Returns(t, "Init") /\ inv[t].err = NoErr
              /\ "password" \in DOMAIN inv[t].arg.conf =>
              secretValues = [p \in {inv[t].arg.conf["password"]} |->
                                 "[password]"]
        /\ Returns(t, "RotateRootCredentials") /\ inv[t].err = NoErr =>
              secretValues = [p \in {inv[t].calls[1].call.password} |->
                                 "[password]"]

\* no thread is between its Lock and its Unlock
NoOperationInProgress == \A t \in Threads : ~InCriticalSection(t)

\* every step that gives the mutex to a thread is the Lock of a waiting
\* thread on a free mutex, and the holder keeps it until its return
LockedOnce ==
    \A t \in Threads :
        /\ mutex' = t /\ mutex # t =>
              mutex = NoThread /\ pc[t] = "lock" /\ pc'[t] = "start"
        /\ mutex = t /\ mutex' # t =>
              mutex' = NoThread /\ pc[t] = "ret" /\ pc'[t] = "idle"

\* how far an operation is from its Lock
Stage(p) ==
    CASE p = "start" -> 1
      [] p = "connect" -> 2
      [] p = "dial" -> 3
      [] p \in {"verify", "rpc"} -> 4
      [] p = "ret" -> 5
      [] OTHER -> 0

\* a step of a thread that holds the mutex takes its operation forward, to
\* its return or to the Unlock that ends it: no path goes back or starts over
TowardsUnlock ==
    \A t \in Threads :
        InCriticalSection(t) /\ pc'[t] # pc[t] =>
            \/ Stage(pc'[t]) > Stage(pc[t])
            \/ pc[t] = "ret" /\ pc'[t] = "idle" /\ mutex' = NoThread

\* a thread past the first step of its operation can take its next step,
\* whatever the client library answers
CanProceed(t) ==
    /\ pc[t] = "connect" => ENABLED InitConnection(t)
    /\ pc[t] = "verify" => ENABLED InitVerify(t)
    /\ pc[t] = "dial" => ENABLED DialFail(t)
    /\ pc[t] = "rpc" => ENABLED RemoteCallFail(t)
    /\ pc[t] = "ret" => ENABLED Unlock(t)

(***************************************************************************)
(* C26: every invocation of CreateUser, SetCredentials, RevokeUser,        *)
(* RotateRootCredentials, Init or Close releases the mutex on every exit   *)
(* path.  A thread holds the mutex only between its Lock and its Unlock,   *)
(* so the mutex is free whenever no operation is in progress, and a thread *)
(* that waits for it then can take it; the mutex passes to a thread only   *)
(* by the Lock of a waiting thread on a free mutex, so none acquires it    *)
(* twice; and every step of the holder takes it towards its return, where  *)
(* the Unlock can run and frees the mutex, with or without error.          *)
(***************************************************************************)
C26_LockReleased ==
    /\ [](\A t \in Threads : mutex = t => InCriticalSection(t))
    /\ [](NoOperationInProgress => mutex = NoThread)
    /\ [](\A t \in Threads :
             pc[t] = "lock" /\ NoOperationInProgress => ENABLED Lock(t))
    /\ [](\A t \in Threads : CanProceed(t))
    /\ [][LockedOnce /\ TowardsUnlock]_vars

\* a thread has taken the mutex after an Init that failed has returned,
\* while the other thread waits
C26_Witness ==
    \E t, u \in Threads :
        /\ lastInit = "fail"
        /\ pc[t] = "start"
        /\ mutex = t
        /\ pc[u] = "lock"

\* the operations that create, change and drop users on the server
CredentialOps == UserOps \cup {"RotateRootCredentials"}

\* the connection attempt of thread t ends and has made no handle
EstablishmentFails(t) ==
    /\ pc[t] = "dial"
    /\ pc'[t] # "dial"
    /\ Len(conns') = Len(conns)

(***************************************************************************)
(* C27: when the connection attempt of a credential operation fails, the   *)
(* operation returns the connection error and the empty value, having      *)
(* issued no remote call and made this one attempt only, and no handle is  *)
(* cached.  An operation that starts on an initialized producer with no    *)
(* handle cached and passes its first local check makes exactly one        *)
(* connection attempt.                                                     *)
(***************************************************************************)
C27_FailedEstablishment ==
    /\ [][\A t \in Threads :
            EstablishmentFails(t) /\ inv[t].op \in CredentialOps =>
                /\ pc'[t] = "ret"
                /\ inv'[t].err = ErrConnect
                /\ inv'[t].val = NoValue(inv[t].op)
                /\ inv'[t].calls = <<>>
                /\ inv'[t].dials = 1
                /\ client' = NilClient
                /\ UNCHANGED <<confVars, ngen>>]_vars
    /\ [](\A t \in Threads :
            /\ pc[t] = "ret"
            /\ inv[t].op \in CredentialOps
            /\ inv[t].had = NilClient
            /\ inv[t].pre.Initialized
            /\ inv[t].err \notin {ErrRotate, ErrEmptyCreationStatement}
            => inv[t].dials = 1)

\* a CreateUser that started with no handle cached, the only handle made
\* so far being closed, has made one connection attempt, which failed
C27_Witness ==
    \E t \in Threads :
        /\ Returns(t, "CreateUser")
        /\ inv[t].had = NilClient
        /\ inv[t].err = ErrConnect
        /\ inv[t].dials = 1
        /\ Len(conns) = 1
        /\ conns[1].closed = 1

\* the invocation of thread t has had no remote activity: no connection
\* attempt, no handle closed or replaced, no remote call
NoRemoteActivity(t) ==
    /\ inv[t].dials = 0
    /\ inv[t].closes = 0
    /\ inv[t].calls = <<>>
    /\ inv[t].cli = NilClient
    /\ client = inv[t].had

(***************************************************************************)
(* C28 as claimed: an invocation that ends in one of the local             *)
(* precondition errors (rotation without username or password, CreateUser  *)
(* without creation statement, CreateUser with an empty roles array) has   *)
(* had no remote activity: it has established or replaced no connection    *)
(* and issued no remote call.                                              *)
(***************************************************************************)
C28_LocalChecksBeforeRemoteActivity ==
    \A t \in Threads :
        /\ pc[t] = "ret"
        /\ inv[t].err \in
              {ErrRotate, ErrEmptyCreationStatement, ErrRolesRequired}
        => NoRemoteActivity(t)

(***************************************************************************)
(* C28, amended: a rotation on a producer whose username or password is    *)
(* empty and a CreateUser without creation statement end in their errors   *)
(* with no remote activity.  A CreateUser that ends in the roles error has *)
(* issued no remote call, but it has obtained a connection first: the      *)
(* cached handle, or a new one from one connection attempt, after closing  *)
(* the cached handle if that had lost its connection.                      *)
(***************************************************************************)
C28_LocalChecksBeforeRemoteCall ==
    \A t \in Threads :
        /\ Returns(t, "RotateRootCredentials")
              /\ (inv[t].pre.Username = "" \/ inv[t].pre.Password = "") =>
              inv[t].err = ErrRotate
        /\ Returns(t, "CreateUser") /\ Len(inv[t].arg) = 0 =>
              inv[t].err = ErrEmptyCreationStatement
        /\ pc[t] = "ret"
              /\ inv[t].err \in {ErrRotate, ErrEmptyCreationStatement} =>
              NoRemoteActivity(t)
        /\ pc[t] = "ret" /\ inv[t].err = ErrRolesRequired =>
              /\ inv[t].op = "CreateUser"
              /\ inv[t].calls = <<>>
              /\ inv[t].cli # NilClient
              /\ inv[t].dials <= 1
              /\ inv[t].closes <= inv[t].dials
              /\ inv[t].dials = 0 => client = inv[t].had

\* a CreateUser has ended in the roles error after it replaced a handle that
\* had lost its connection
C28_Witness ==
    \E t \in Threads :
        /\ Returns(t, "CreateUser")
        /\ inv[t].err = ErrRolesRequired
        /\ inv[t].dials = 1
        /\ inv[t].closes = 1
        /\ client # inv[t].had

\* thread t takes the first step of a rotation on a producer whose
\* username or password is empty
RotatesUnconfigured(t) ==
    /\ pc[t] = "start"
    /\ inv[t].op = "RotateRootCredentials"
    /\ pc'[t] # "start"
    /\ Username = "" \/ Password = ""

(***************************************************************************)
(* C29: RotateRootCredentials on a producer whose username or password is  *)
(* empty, initialized or not, fails with "username and password are        *)
(* required to rotate" and no map, in one step that generates no password  *)
(* and changes nothing: not the configuration, the raw configuration map,  *)
(* the cached handle or any handle.                                        *)
(***************************************************************************)
C29_RotationGuard ==
    /\ [][\A t \in Threads :
            RotatesUnconfigured(t) =>
                /\ pc'[t] = "ret"
                /\ inv'[t].err = ErrRotate
                /\ inv'[t].val = NilConf
                /\ UNCHANGED <<confVars, client, conns, ngen, mutex>>]_vars
    /\ [](\A t \in Threads :
            /\ Returns(t, "RotateRootCredentials")
            /\ inv[t].pre.Username = "" \/ inv[t].pre.Password = ""
            => /\ inv[t].err = ErrRotate
               /\ Config = inv[t].pre
               /\ NoRemoteActivity(t))

\* a rotation has been refused on an initialized producer with a handle
\* cached, whose password a later Init had emptied
C29_Witness ==
    \E t \in Threads :
        /\ Returns(t, "RotateRootCredentials")
        /\ inv[t].err = ErrRotate
        /\ Initialized
        /\ Username # ""
        /\ Password = ""
        /\ client # NilClient

\* the errors of the steps an operation takes by itself: its checks of the
\* configuration and of the creation statement, and the generation of the
\* username and the password
LocalErrors ==
    {ErrRotate, ErrEmptyCreationStatement, ErrParse, ErrRolesRequired,
     ErrGenerateUsername, ErrGeneratePassword}

\* the remote user-management calls thread t has issued, the one it waits
\* for included
Issued(t) == Len(inv[t].calls) + (IF pc[t] = "rpc" THEN 1 ELSE 0)

(***************************************************************************)
(* C30: an invocation of CreateUser, SetCredentials, RevokeUser or         *)
(* RotateRootCredentials issues at most one remote call, a create-user, a  *)
(* drop-user or a change-password, and makes at most one connection        *)
(* attempt.  At its return it has issued exactly one call if and only if   *)
(* it obtained a connected handle and none of its local steps (the checks  *)
(* of the configuration and of the creation statement, the generation of   *)
(* the username and the password) failed.                                  *)
(***************************************************************************)
C30_AtMostOneCall ==
    \A t \in Threads :
        inv[t].op \in CredentialOps =>
            /\ Issued(t) <= 1
            /\ inv[t].dials <= 1
            /\ \A k \in 1..Len(inv[t].calls) :
                  inv[t].calls[k].call.kind \in
                      {"CreateUser", "DropUser", "ChangePassword"}
            /\ pc[t] = "ret" =>
                  (Len(inv[t].calls) = 1 <=>
                      /\ inv[t].cli # NilClient
                      /\ inv[t].err \notin LocalErrors)

\* a rotation has returned the error of its one remote call, issued on a
\* handle from its one connection attempt
C30_Witness ==
    \E t \in Threads :
        /\ Returns(t, "RotateRootCredentials")
        /\ inv[t].err = ErrRemote
        /\ Len(inv[t].calls) = 1
        /\ inv[t].dials = 1

(***************************************************************************)
(* C31: whenever the producer is initialized and no Init is running, its   *)
(* username, password and host string are not empty, and its endpoints are *)
(* the endpoints that getHosts makes of the host string, at least one.     *)
(***************************************************************************)
C31_InitializedIsConfigured ==
    Initialized /\ (\A t \in Threads : pc[t] # "start") =>
        /\ Username # ""
        /\ Password # ""
        /\ Host # <<>>
        /\ hosts # <<>>
        /\ getHosts(Host).err = NoErr
        /\ hosts = getHosts(Host).hosts

\* handle h was created from the configuration the producer holds
CreatedFromConfig(h) ==
    /\ conns[h].User = Username
    /\ conns[h].Password = Password
    /\ conns[h].hosts = hosts
    /\ conns[h].TlsConfig = clientPolicy.TlsConfig

(***************************************************************************)
(* C32: when the last Init that returned has succeeded, also on a producer *)
(* that held a connected handle of an earlier configuration, the handle a  *)
(* later credential operation obtains was created from the endpoints,      *)
(* username, password and TLS configuration of that Init.                  *)
(***************************************************************************)
C32_HandleOfLastInit ==
    \A t \in Threads :
        /\ pc[t] = "ret"
        /\ inv[t].op \in CredentialOps
        /\ inv[t].cli # NilClient
        /\ lastInit = "ok"
        => CreatedFromConfig(inv[t].cli)

\* the administrative password in effect: the raw configuration map holds
\* the password of the last Init until a rotation succeeds, and then the
\* password that rotation has set on the database
PasswordInEffect == Get(RawConfig, "password", "")

(***************************************************************************)
(* C33: every connection the producer establishes authenticates with the   *)
(* administrative password in effect; after a successful                   *)
(* RotateRootCredentials that is the rotated password, which the rotation  *)
(* has set on the database and stored in the raw configuration map.        *)
(***************************************************************************)
C33_ConnectsWithRotatedPassword ==
    [][Len(conns') > Len(conns) =>
          conns'[Len(conns')].Password = PasswordInEffect]_vars

\* thread t reads or writes the typed configuration fields
AccessesConfig(t) ==
    \/ pc[t] = "redact"
    \/ pc[t] = "start" /\ inv[t].op = "Init"

(***************************************************************************)
(* C34: a thread reads or writes the password, and the other configuration *)
(* fields, only while it holds the mutex; so no thread is in secretValues, *)
(* about to read the password, while another thread is in Init.            *)
(***************************************************************************)
C34_ConfigAccessUnderLock ==
    /\ \A t \in Threads : AccessesConfig(t) => mutex = t
    /\ \A t, u \in Threads :
          pc[t] = "redact" =>
              ~(InCriticalSection(u) /\ inv[u].op = "Init")

\* the invocation of thread t started with no handle cached, the state
\* Close leaves, on an initialized producer
StartsAfterClose(t) ==
    /\ pc[t] = "ret"
    /\ inv[t].had = NilClient
    /\ inv[t].pre.Initialized

Closed(h) == conns[h].closed > 0

\* a thread is between the Close() of a cached handle that had lost its
\* connection and the assignment of c.client that replaces it
Replacing == \E t \in Threads : pc[t] = "dial"

(***************************************************************************)
(* C36: a handle that has been closed is not cached, but for the time a    *)
(* Connection, under the mutex, takes to replace it; it is not the handle  *)
(* an operation has obtained from the connection, nor the handle of a      *)
(* remote call; and the handle of an operation's remote call is the        *)
(* handle the operation obtained and the one cached during the call.       *)
(***************************************************************************)
C36_ClosedHandleUnused ==
    /\ client # NilClient /\ ~Replacing => ~Closed(client)
    /\ \A t \in Threads :
          InCriticalSection(t) /\ inv[t].cli # NilClient =>
              /\ ~Closed(inv[t].cli)
              /\ inv[t].cli = client
    /\ \A t \in Threads :
          pc[t] = "rpc" =>
              /\ inv[t].pending.handle = inv[t].cli
              /\ inv[t].pending.handle = client
              /\ ~Closed(client)
    /\ \A t \in Threads :
          \A k \in 1..Len(inv[t].calls) :
              /\ inv[t].calls[k].call.handle = client
              /\ ~Closed(inv[t].calls[k].call.handle)

\* a remote call is in progress on the second handle, the first one closed
\* because it had lost its connection
C36_Witness ==
    \E t \in Threads :
        /\ pc[t] = "rpc"
        /\ inv[t].closes = 1
        /\ inv[t].pending.handle = 2
        /\ Closed(1)
        /\ client = 2

(***************************************************************************)
(* C37: when Init(conf) returns without error, on a new producer or on one *)
(* configured before, the typed host, username and password are the       *)
(* values of conf, empty for a key conf does not hold: no value of an      *)
(* earlier configuration is left in them.                                  *)
(***************************************************************************)
C37_TypedFieldsOfConf ==
    \A t \in Threads :
        Returns(t, "Init") /\ inv[t].err = NoErr =>
            LET conf == inv[t].arg.conf IN
            /\ inv[t].val = conf
            /\ Host = Get(conf, "host", <<>>)
            /\ Username = Get(conf, "username", "")
            /\ Password = Get(conf, "password", "")

=============================================================================
